---------------------------- MODULE Spec2Model ----------------------------
(***************************************************************************)
(* rust-openclaw: a Telegram bot that classifies a message through an LLM, *)
(* runs the resulting plan of shell commands and repairs failing commands  *)
(* with LLM suggestions.                                                   *)
(*                                                                         *)
(*   Spec      one handling unit, bot.rs process_message with              *)
(*             run_commands_with_fix_retry, LlmClient::classify and        *)
(*             Executor::run_command                                       *)
(*   SpecFair  Spec with every awaited call returning (weak fairness)      *)
(*   SpecExec  executor.rs alone: Executor::run_commands over              *)
(*             Executor::run_command, with the child processes it leaves   *)
(*   SpecUnits several messages at once: handle_message and the units it   *)
(*             spawns                                                      *)
(*   SpecExtract, SpecPaths, SpecScan, SpecIndex, SpecReplace, SpecPpt     *)
(*             the text functions of bot.rs, each applied to one input     *)
(***************************************************************************)
EXTENDS Integers, Sequences, FiniteSets, TLC

VARIABLES
    \* ---- configuration (config.rs ExecutorConfig) ----
    max_fix_retries,   \* executor.max_fix_retries
    activate_venv,     \* executor.activate_venv: <<>> (None) or <<path>>
    echo_result,       \* executor.echo_result
    allowed_chat_ids,  \* telegram.allowed_chat_ids (config.rs TelegramConfig)
    \* ---- process_message / run_commands_with_fix_retry (bot.rs) ----
    pc,                \* position of the handling unit
    intent,            \* outcome of llm.classify: "none", "err", "panic", "question", "command"
    commands,          \* the Plan of process_message
    lcmds,             \* `commands` argument of run_commands_with_fix_retry
    all,               \* results obtained before the loop was entered (the probe's r0)
    i,                 \* loop index into lcmds (1-based)
    result,            \* `result` of the current loop iteration, <<>> when unset
    retry_count,       \* `retry_count` of the current loop iteration
    fix_cmd,           \* `fix_cmd` awaiting its run, <<>> when unset
    results,           \* `results` of run_commands_with_fix_retry
    final,             \* (results, extra_doc_paths) of process_message, <<>> before
    report,            \* the entries format_results gave for the report, <<>> before
    sent,              \* what the unit has sent to the chat, in order
    \* ---- history of the unit ----
    cur,               \* Plan index of the Action last run (0: none yet)
    nrun,              \* number of run_command calls made for Action cur
    nfixLoop,          \* ask_fix_for_failure calls the repair loop made for Action cur
    nfixReport,        \* ask_fix_for_failure calls made for the report (on the last Action)
    lret,              \* lcmds index -> <<last return of run_command for it>>, or <<>>
    nppt,              \* number of generate_ppt_html calls
    ppt_how,           \* how the slide-deck branch ended: "none" (not taken yet), "saved",
                       \* "write" (std::fs::write failed), "llm" (generate_ppt_html failed)
    lastAsk,           \* how the repair loop's last ask_fix_for_failure for Action cur
                       \* ended: "none" (not asked), "err", "nocmd", "cmd"
    inflight,          \* the awaited calls of the unit that have not returned yet
    \* ---- Executor::run_commands (executor.rs) ----
    xpc,               \* "run", "done", "panicked"
    xcommands,         \* the batch
    xi,                \* index into the batch
    xresults,          \* `results` of run_commands
    xlast,             \* <<[fate of the last child, ret: what run_command returned]>>, or <<>>
    xchildren,         \* child processes spawned so far: [shell, timed_out, state]
    \* ---- several handling units (bot.rs handle_message, process_message) ----
    task_counter,      \* the static TASK_COUNTER
    units,             \* unit -> its message [chat, kind] and [pc, tid, results, extra, docs]
                       \* of its handle_message and process_message
    slides,            \* content of the file /tmp/slides.html: <<>> (absent) or <<markup>>
    \* ---- the text functions of bot.rs, applied to one input ----
    fin,               \* the input given to the function
    fout               \* <<>> before the call, then <<what the function returned>>

vars == <<max_fix_retries, activate_venv, echo_result, allowed_chat_ids, pc, intent, commands, lcmds,
          all, i, result,
          retry_count, fix_cmd, results, final, report, sent, cur, nrun, nfixLoop, nfixReport,
          lret, nppt, ppt_how, lastAsk, inflight, xpc, xcommands, xi, xresults, xlast, xchildren,
          task_counter, units, slides, fin, fout>>

botvars == <<pc, intent, commands, lcmds, all, i, result, retry_count, fix_cmd, results,
             final, report, sent, cur, nrun, nfixLoop, nfixReport, lret, nppt, ppt_how, lastAsk,
             inflight>>

execvars == <<xpc, xcommands, xi, xresults, xlast, xchildren>>

cfgvars == <<max_fix_retries, activate_venv, echo_result, allowed_chat_ids>>

unitvars == <<task_counter, units, slides>>

fnvars == <<fin, fout>>

-----------------------------------------------------------------------------
(* Bounds of the model *)

MaxPlan == 3        \* longest Plan a classification returns
MaxBudget == 2      \* largest max_fix_retries
MaxBatch == 2       \* longest batch given to Executor::run_commands
MaxUnits == 2       \* handling units running at once
MaxLines == 4       \* most lines of a suggestion
MaxWords == 3       \* most words of a scanned text
MaxResults == 2     \* most results of a scanned list
MaxOutLines == 3    \* most lines of a probe's stdout
MaxArgs == 3        \* most arguments of a ppt-generator command

-----------------------------------------------------------------------------
(* Text: a Rust String as its UTF-8 layout, a sequence of runs              *)
(* [w |-> bytes per character, n |-> number of such characters].            *)
(* Raw child output may hold runs with w = 0: bytes that are not UTF-8.     *)

Ascii(n) == IF n = 0 THEN <<>> ELSE <<[w |-> 1, n |-> n]>>

Wide(w, n) == IF n = 0 THEN <<>> ELSE <<[w |-> w, n |-> n]>>

RECURSIVE ByteLen(_)
ByteLen(s) == IF s = <<>> THEN 0 ELSE Head(s).w * Head(s).n + ByteLen(Tail(s))

\* str::is_char_boundary: 0 and len are boundaries, beyond len is not, inside
\* the string only the first byte of a character is.
RECURSIVE IsCharBoundary(_, _)
IsCharBoundary(s, k) ==
    IF k = 0 THEN TRUE
    ELSE IF s = <<>> THEN FALSE
    ELSE LET run == Head(s).w * Head(s).n IN
         IF k <= run THEN k % Head(s).w = 0
         ELSE IsCharBoundary(Tail(s), k - run)

\* &s[..k] for a k that is a character boundary
RECURSIVE SliceTo(_, _)
SliceTo(s, k) ==
    IF k = 0 \/ s = <<>> THEN <<>>
    ELSE LET run == Head(s).w * Head(s).n IN
         IF k >= run THEN <<Head(s)>> \o SliceTo(Tail(s), k - run)
         ELSE Wide(Head(s).w, k \div Head(s).w)

\* String::from_utf8_lossy: every invalid byte becomes U+FFFD, three bytes wide
RECURSIVE from_utf8_lossy(_)
from_utf8_lossy(raw) ==
    IF raw = <<>> THEN <<>>
    ELSE <<[w |-> (IF Head(raw).w = 0 THEN 3 ELSE Head(raw).w), n |-> Head(raw).n]>>
         \o from_utf8_lossy(Tail(raw))

\* "...(截断)": four ASCII bytes, two three-byte characters, one ASCII byte
TruncatedMark == <<[w |-> 1, n |-> 4], [w |-> 3, n |-> 2], [w |-> 1, n |-> 1]>>

Panic == [panic |-> TRUE, text |-> <<>>]

Fine(t) == [panic |-> FALSE, text |-> t]

\* executor.rs truncate_str: slices at byte `max` whatever lies there
exec_truncate_str(s, max) ==
    IF ByteLen(s) <= max THEN Fine(s)
    ELSE IF IsCharBoundary(s, max) THEN Fine(SliceTo(s, max) \o TruncatedMark)
    ELSE Panic

\* llm_client.rs truncate_str: the same slice, marked "..."
llm_truncate_str(s, max) ==
    IF ByteLen(s) <= max THEN Fine(s)
    ELSE IF IsCharBoundary(s, max) THEN Fine(SliceTo(s, max) \o Ascii(3))
    ELSE Panic

\* bot.rs truncate: steps back to a character boundary before slicing
RECURSIVE FloorBoundary(_, _)
FloorBoundary(s, k) ==
    IF k > 0 /\ ~IsCharBoundary(s, k) THEN FloorBoundary(s, k - 1) ELSE k

truncate(s, max) ==
    IF ByteLen(s) <= max THEN Fine(s)
    ELSE Fine(SliceTo(s, FloorBoundary(s, max)) \o TruncatedMark)

StdoutLogLimit == 1000
StderrLogLimit == 500
LlmBodyLogLimit == 2000
LlmContentLogLimit == 200

-----------------------------------------------------------------------------
(* Commands, Actions, results *)

Some(x) == <<x>>
None == <<>>

\* A command line, by what the bot's recognisers see in it: kind "ppt" is a
\* line parse_ppt_generator_args accepts, "list" one is_list_avfoundation_devices
\* accepts, "rec" one is_avfoundation_record accepts, "sh" any other; dev is the
\* number before ":0" in the -i value (-1: none); n tells texts of a kind apart.
Cmd(kind, n, dev) == [kind |-> kind, n |-> n, dev |-> dev]

PlanCmds == {Cmd("sh", 0, -1), Cmd("ppt", 0, -1), Cmd("list", 0, -1), Cmd("rec", 0, 1)}

TaskCommand(c) == [command |-> c, description |-> c.kind]

CommandResult(cmd, success, exit_code, stdout, stderr) ==
    [command |-> cmd, success |-> success, exit_code |-> exit_code,
     stdout |-> stdout, stderr |-> stderr]

\* A String the program builds or captures: kind says what it is ("output": what
\* a child wrote or an empty String; "timeout", "spawn", "llm", "write": the text
\* of that error, naming cmd), text is its UTF-8 layout, and screen the device
\* index a "Capture screen" line of it yields (-1: it holds no such line).
Str(kind, cmd, text, screen) == [kind |-> kind, cmd |-> cmd, text |-> text, screen |-> screen]

EmptyStr == Str("output", None, <<>>, -1)

\* format!("命令超时 ({} 秒): {cmd}") and format!("命令执行失败: {cmd}"): what
\* e.to_string() gives for the anyhow errors of run_command
TimeoutMsg(cmd) == Str("timeout", Some(cmd), <<>>, -1)
SpawnMsg(cmd) == Str("spawn", Some(cmd), <<>>, -1)

-----------------------------------------------------------------------------
(* Executor::run_command (executor.rs) *)

\* What a child process does once asked for: fate "nospawn" (sh cannot be
\* started), "timeout" (still running when timeout_secs are over), "exit0",
\* "exit1" (exit status 1), "signal" (killed by a signal: no exit code);
\* out and err are the raw bytes it wrote.
Behaviour(fate, out, err, screen) == [fate |-> fate, out |-> out, err |-> err, screen |-> screen]

\* The arguments of the child: Command::new("sh").arg("-c").arg(cmd). The
\* activate field is the venv whose activation is put before the command.
ShellLine(cmd) == [activate |-> None, command |-> cmd]

\* The two tlog! lines printing the captured output, cut to 1000 and 500 bytes
LogsOutput(r) ==
    /\ (r.stdout.text # <<>>) => ~exec_truncate_str(r.stdout.text, StdoutLogLimit).panic
    /\ (r.stderr.text # <<>>) => ~exec_truncate_str(r.stderr.text, StderrLogLimit).panic

Ok(r) == [tag |-> "Ok", result |-> Some(r), msg |-> EmptyStr]
Err(m) == [tag |-> "Err", result |-> None, msg |-> m]
Panicked == [tag |-> "Panic", result |-> None, msg |-> EmptyStr]

\* The value run_command returns (or its panic) for a child behaving as beh
run_command(cmd, beh) ==
    IF beh.fate = "nospawn" THEN Err(SpawnMsg(cmd))
    ELSE IF beh.fate = "timeout" THEN Err(TimeoutMsg(cmd))
    ELSE LET r == CommandResult(cmd, beh.fate = "exit0",
                      (IF beh.fate = "exit0" THEN Some(0)
                       ELSE IF beh.fate = "exit1" THEN Some(1) ELSE None),
                      Str("output", None, from_utf8_lossy(beh.out), beh.screen),
                      Str("output", None, from_utf8_lossy(beh.err), -1))
         IN IF LogsOutput(r) THEN Ok(r) ELSE Panicked

\* The child run_command leaves behind when it returns. The timeout drops the
\* future of Command::output(); kill_on_drop is not set, so the drop does not
\* kill the child.
ChildAfter(cmd, beh) ==
    IF beh.fate = "nospawn" THEN <<>>
    ELSE <<[shell |-> ShellLine(cmd), timed_out |-> beh.fate = "timeout",
            state |-> IF beh.fate = "timeout" THEN "running" ELSE "exited"]>>

ErrResultWithoutText(cmd, m) == CommandResult(cmd, FALSE, None, EmptyStr, EmptyStr)

\* CommandResult built by a caller from Err(e) of run_command
ErrResult(cmd, m) == CommandResult(cmd, FALSE, None, EmptyStr, m)

-----------------------------------------------------------------------------
(* Executor::run_commands (executor.rs), the batch runner: SpecExec *)

Venvs == {None, Some(".venv")}

\* Raw outputs: nothing; at a log limit; one byte over it; a three-byte
\* character lying across it; an invalid byte lying across it.
RawOutputs(limit) ==
    { <<>>, Ascii(limit), Ascii(limit + 1),
      Ascii(limit - 1) \o Wide(3, 1), Ascii(limit - 1) \o Wide(0, 1) }

ExecBehaviours ==
    {Behaviour(f, <<>>, <<>>, -1) : f \in {"nospawn", "timeout"}}
    \cup {Behaviour(f, o, e, -1) : f \in {"exit0", "exit1", "signal"},
                                   o \in RawOutputs(StdoutLogLimit),
                                   e \in {<<>>, Ascii(StderrLogLimit - 1) \o Wide(3, 1)}}

ExecCmds == {Cmd("sh", 0, -1), Cmd("sh", 1, -1)}

RECURSIVE SeqsUpTo(_, _)
SeqsUpTo(S, n) ==
    IF n = 0 THEN {<<>>}
    ELSE LET shorter == SeqsUpTo(S, n - 1) IN
         shorter \cup {Append(q, x) : q \in {p \in shorter : Len(p) = n - 1}, x \in S}

BotIdle ==
    /\ pc = "off" /\ intent = "none" /\ commands = <<>> /\ lcmds = <<>> /\ all = <<>>
    /\ i = 0 /\ result = <<>> /\ retry_count = 0 /\ fix_cmd = <<>> /\ results = <<>>
    /\ final = <<>> /\ report = <<>> /\ sent = <<>> /\ cur = 0 /\ nrun = 0 /\ nfixLoop = 0
    /\ nfixReport = 0 /\ lret = <<>> /\ nppt = 0 /\ lastAsk = "none" /\ inflight = {}
    /\ ppt_how = "none"

UnitsIdle == task_counter = 0 /\ units = <<>> /\ slides = <<>>

FnIdle == fin = <<>> /\ fout = <<>>

XInit ==
    /\ UnitsIdle /\ FnIdle
    /\ max_fix_retries = 0
    /\ activate_venv \in Venvs
    /\ echo_result = TRUE
    /\ allowed_chat_ids = <<>>
    /\ BotIdle
    /\ xpc = "run"
    /\ xcommands \in {q \in SeqsUpTo({TaskCommand(c) : c \in ExecCmds}, MaxBatch) : q # <<>>}
    /\ xi = 1
    /\ xresults = <<>>
    /\ xlast = <<>>
    /\ xchildren = <<>>

\* One iteration of the for loop of run_commands
XStep ==
    /\ xpc = "run"
    /\ xi <= Len(xcommands)
    /\ \E beh \in ExecBehaviours :
         LET task == xcommands[xi]
             ret == run_command(task.command, beh)
             pushed == IF ret.tag = "Ok" THEN Append(xresults, ret.result[1])
                       ELSE Append(xresults, ErrResult(task.command, ret.msg))
             stop == IF ret.tag = "Ok" THEN ~ret.result[1].success ELSE TRUE
         IN /\ xlast' = Some([fate |-> beh.fate, ret |-> ret])
            /\ xchildren' = xchildren \o ChildAfter(task.command, beh)
            /\ IF ret.tag = "Panic"
               THEN /\ xpc' = "panicked"
                    /\ UNCHANGED <<xresults, xi>>
               ELSE /\ xresults' = pushed
                    /\ xi' = xi + 1
                    /\ xpc' = IF stop \/ xi + 1 > Len(xcommands) THEN "done" ELSE "run"
    /\ UNCHANGED <<xcommands, cfgvars, botvars, unitvars, fnvars>>

\* A child that outlived its run_command ends on its own
XChildExits ==
    /\ \E k \in 1..Len(xchildren) :
         /\ xchildren[k].state = "running"
         /\ xchildren' = [xchildren EXCEPT ![k].state = "exited"]
    /\ UNCHANGED <<xpc, xcommands, xi, xresults, xlast, cfgvars, botvars, unitvars, fnvars>>

XNext == XStep \/ XChildExits

SpecExec == XInit /\ [][XNext]_vars

-----------------------------------------------------------------------------
(* LlmClient::classify over call_api (llm_client.rs) *)

\* What the LLM endpoint answers: transport "neterr" (send failed or timed
\* out), "http" (a non-success status), "ok"; body is the response body; parsed
\* is what serde makes of the message content: "malformed" (no intent can be
\* parsed, an unknown "type" tag included), "question" or "command"; content is
\* the answer of a question and plan the commands of a command.
Response(transport, body, parsed, content, plan) ==
    [transport |-> transport, body |-> body, parsed |-> parsed, content |-> content,
     plan |-> plan]

Intent(tag, kind, plan) == [tag |-> tag, kind |-> kind, plan |-> plan]

classify(resp) ==
    IF resp.transport # "ok" THEN Intent("Err", "none", <<>>)
    ELSE IF llm_truncate_str(resp.body, LlmBodyLogLimit).panic THEN Intent("Panic", "none", <<>>)
    ELSE IF resp.parsed = "malformed" THEN Intent("Err", "none", <<>>)
    ELSE IF resp.parsed = "question"
         THEN IF llm_truncate_str(resp.content, LlmContentLogLimit).panic
              THEN Intent("Panic", "none", <<>>)
              ELSE Intent("Ok", "question", <<>>)
    ELSE Intent("Ok", "command", resp.plan)

Plans == SeqsUpTo({TaskCommand(c) : c \in PlanCmds}, MaxPlan)

ShortBody == Ascii(LlmContentLogLimit)
SplitBody == Ascii(LlmBodyLogLimit - 1) \o Wide(3, 1)

Responses ==
    {Response(t, ShortBody, "malformed", <<>>, <<>>) : t \in {"neterr", "http"}}
    \cup {Response("ok", b, "malformed", <<>>, <<>>) : b \in {ShortBody, SplitBody}}
    \cup {Response("ok", ShortBody, "question", c, <<>>) :
            c \in {Ascii(LlmContentLogLimit), Ascii(LlmContentLogLimit + 1),
                   Ascii(LlmContentLogLimit - 1) \o Wide(3, 1)}}
    \cup {Response("ok", ShortBody, "command", <<>>, p) : p \in Plans}

-----------------------------------------------------------------------------
(* The recognisers of bot.rs, on the command kinds *)

parse_ppt_generator_args(cmd) == IF cmd.kind = "ppt" THEN Some(cmd.n) ELSE None

is_list_avfoundation_devices(cmd) == cmd.kind = "list"

is_avfoundation_record(cmd) == cmd.kind = "rec"

parse_avfoundation_screen_index(stdout) ==
    IF stdout.screen >= 0 THEN Some(stdout.screen) ELSE None

\* Only a number followed by ":0" in the -i value is replaced
replace_avfoundation_device_index(cmd, index) ==
    IF cmd.dev >= 0 THEN [cmd EXCEPT !.dev = index] ELSE cmd

-----------------------------------------------------------------------------
(* process_message and run_commands_with_fix_retry (bot.rs): Spec *)

\* The children the unit's commands may turn out to be
BotBehaviours(cmd) ==
    {Behaviour("nospawn", <<>>, <<>>, -1), Behaviour("timeout", <<>>, <<>>, -1),
     Behaviour("exit0", <<>>, <<>>, -1), Behaviour("exit1", <<>>, Ascii(StderrLogLimit), -1),
     Behaviour("exit0", Ascii(StdoutLogLimit - 1) \o Wide(3, 1), <<>>, -1)}
    \cup (IF is_list_avfoundation_devices(cmd)
          THEN {Behaviour("exit0", Ascii(StdoutLogLimit), <<>>, 0),
                Behaviour("exit1", Ascii(StdoutLogLimit), <<>>, 0)}
          ELSE {})

\* ask_fix_for_failure's answers to a failing command, by what
\* extract_command_from_suggestion finds in the suggestion: nothing, the
\* failing command again, or another command
FixAnswers(failed) ==
    {[tag |-> "Err", extracted |-> None], [tag |-> "Ok", extracted |-> None],
     [tag |-> "Ok", extracted |-> Some(failed)],
     [tag |-> "Ok", extracted |-> Some(Cmd("sh", 1, -1))]}

Unset(n) == [k \in 1..n |-> <<>>]

ExecIdle ==
    /\ xpc = "off" /\ xcommands = <<>> /\ xi = 0 /\ xresults = <<>> /\ xlast = <<>>
    /\ xchildren = <<>>

Init ==
    /\ UnitsIdle /\ FnIdle
    /\ max_fix_retries \in 0..MaxBudget
    /\ activate_venv = None
    /\ echo_result \in BOOLEAN
    /\ allowed_chat_ids = <<>>
    /\ pc = "classify"
    /\ intent = "none"
    /\ commands = <<>> /\ lcmds = <<>> /\ all = <<>>
    /\ i = 0 /\ result = <<>> /\ retry_count = 0 /\ fix_cmd = <<>> /\ results = <<>>
    /\ final = <<>> /\ report = <<>>
    /\ sent = <<"analyzing">>
    /\ cur = 0 /\ nrun = 0 /\ nfixLoop = 0 /\ nfixReport = 0 /\ lret = <<>> /\ nppt = 0
    /\ ppt_how = "none"
    /\ lastAsk = "none" /\ inflight = {}
    /\ ExecIdle

format_results_OfLoopList(cmds, rs) ==
    [k \in 1..Len(rs) |->
       [success |-> rs[k].success,
        desc |-> IF k <= Len(lcmds) THEN lcmds[k].description ELSE "unknown",
        command |-> rs[k].command]]

\* The entries of the report, one per result: the mark of success, the
\* description commands.get(i) gives (or the text for none) and the command
\* of the result; the stdout and stderr sections of an entry are left out
format_results(cmds, rs) ==
    [k \in 1..Len(rs) |->
       [success |-> rs[k].success,
        desc |-> IF k <= Len(cmds) THEN cmds[k].description ELSE "unknown",
        command |-> rs[k].command]]

DispatchWithoutBypass(plan) ==
    IF Len(plan) >= 2 /\ is_list_avfoundation_devices(plan[1].command)
                      /\ is_avfoundation_record(plan[2].command) THEN "probe"
    ELSE "run"

\* Where process_message goes once it holds a non-empty Plan
Dispatch(plan) ==
    IF parse_ppt_generator_args(plan[1].command) # None THEN "ppt"
    ELSE IF Len(plan) >= 2 /\ is_list_avfoundation_devices(plan[1].command)
                           /\ is_avfoundation_record(plan[2].command) THEN "probe"
    ELSE "run"

OnClassifiedSilent(out) ==
    IF out.tag = "Panic" THEN [say |-> <<>>, pc |-> "aborted"]
    ELSE IF out.tag = "Err" THEN [say |-> <<>>, pc |-> "done"]
    ELSE IF out.kind = "question" THEN [say |-> <<"answer">>, pc |-> "done"]
    ELSE IF out.plan = <<>> THEN [say |-> <<"nothing_to_run">>, pc |-> "done"]
    ELSE [say |-> <<"plan">>, pc |-> Dispatch(out.plan)]

OnClassifiedSendsEmptyPlan(out) ==
    IF out.tag = "Panic" THEN [say |-> <<>>, pc |-> "aborted"]
    ELSE IF out.tag = "Err" THEN [say |-> <<"llm_error">>, pc |-> "done"]
    ELSE IF out.kind = "question" THEN [say |-> <<"answer">>, pc |-> "done"]
    ELSE IF out.plan = <<>> THEN [say |-> <<"plan">>, pc |-> "done"]
    ELSE [say |-> <<"plan">>, pc |-> Dispatch(out.plan)]

\* What process_message does with the outcome of llm.classify: the message it
\* sends and where it goes next
OnClassified(out) ==
    IF out.tag = "Panic" THEN [say |-> <<>>, pc |-> "aborted"]
    ELSE IF out.tag = "Err" THEN [say |-> <<"llm_error">>, pc |-> "done"]
    ELSE IF out.kind = "question" THEN [say |-> <<"answer">>, pc |-> "done"]
    ELSE IF out.plan = <<>> THEN [say |-> <<"nothing_to_run">>, pc |-> "done"]
    ELSE [say |-> <<"plan">>, pc |-> Dispatch(out.plan)]

Classify ==
    /\ pc = "classify"
    /\ \E resp \in Responses :
         LET out == classify(resp)
             on == OnClassified(out)
             plan == IF on.pc \in {"done", "aborted"} THEN <<>> ELSE out.plan
         IN /\ intent' = (IF out.tag = "Ok" THEN out.kind
                          ELSE IF out.tag = "Err" THEN "err" ELSE "panic")
            /\ sent' = sent \o on.say
            /\ pc' = on.pc
            /\ commands' = plan
            /\ lcmds' = IF on.pc = "run" THEN plan ELSE <<>>
            /\ i' = IF on.pc = "run" THEN 1 ELSE 0
            /\ lret' = IF on.pc = "run" THEN Unset(Len(plan)) ELSE <<>>
    /\ UNCHANGED <<all, result, retry_count, fix_cmd, results, final, report, cur, nrun, nfixLoop,
                   nfixReport, nppt, ppt_how, lastAsk, inflight,
                   cfgvars, execvars, unitvars, fnvars>>

SlidesPath == "/tmp/slides.html"

PptOutcomeAlwaysSaved(cmd, how) ==
    [results |-> <<CommandResult(Cmd("label", cmd.n, -1), TRUE, Some(0),
                                 Str("saved", None, <<>>, -1), EmptyStr)>>,
     extra |-> <<SlidesPath>>]

\* (results, extra_doc_paths) of the slide-deck branch
PptOutcome(cmd, how) ==
    IF how = "saved"
    THEN [results |-> <<CommandResult(Cmd("label", cmd.n, -1), TRUE, Some(0),
                                      Str("saved", None, <<>>, -1), EmptyStr)>>,
          extra |-> <<SlidesPath>>]
    ELSE [results |-> <<CommandResult(cmd, FALSE, None, EmptyStr, Str(how, None, <<>>, -1))>>,
          extra |-> <<>>]

\* The slide-deck branch: generate_ppt_html, then std::fs::write of the markup
GeneratePpt ==
    /\ pc = "ppt"
    /\ nppt' = nppt + 1
    /\ \E how \in {"saved", "write", "llm"} :
         /\ ppt_how' = how
         /\ final' = PptOutcome(commands[1].command, how)
         /\ report' = format_results(commands, PptOutcome(commands[1].command, how).results)
    /\ pc' = "report"
    /\ cur' = 1
    /\ UNCHANGED <<intent, commands, lcmds, all, i, result, retry_count, fix_cmd, results,
                   sent, nrun, lret, nfixLoop, nfixReport, lastAsk, inflight, cfgvars,
                   execvars, unitvars, fnvars>>

PlanIndex == Len(all) + i

Last(q) == q[Len(q)]

ReportAsksNever == FALSE

\* The report asks for one more suggestion when the last result is a failure
ReportAsks == final.results # <<>> /\ ~Last(final.results).success

\* skills::build_relevant_context_for_fix: the hints of the skills whose
\* keywords the command holds, a function of the command
build_relevant_context_for_fix(failed_command) == [hints_for |-> failed_command]

AskArgsOfTask(r, task) ==
    [command |-> task.command, exit_code |-> r.exit_code, stderr |-> r.stderr,
     fix_context |-> build_relevant_context_for_fix(task.command)]

\* The arguments of the repair loop's ask_fix_for_failure, r being `result` and
\* task the Action of the iteration
AskArgs(r, task) ==
    [command |-> r.command, exit_code |-> r.exit_code, stderr |-> r.stderr,
     fix_context |-> build_relevant_context_for_fix(r.command)]

\* An awaited call of the unit: the function, the Plan index of the Action it
\* is made for, the number of repairs made before it, and for an
\* ask_fix_for_failure of the repair loop <<its arguments>>
Call(fn, action, attempt) ==
    [fn |-> fn, action |-> action, attempt |-> attempt, args |-> <<>>]

NoCall == Call("none", 0, 0)

\* The call the unit makes from where it stands
ThisCall ==
    IF pc = "probe" THEN Call("run_command", 1, 0)
    ELSE IF pc = "run" THEN Call("run_command", PlanIndex, 0)
    ELSE IF pc = "askfix"
         THEN [Call("ask_fix_for_failure", PlanIndex, retry_count)
                 EXCEPT !.args = Some(AskArgs(result[1], lcmds[i]))]
    ELSE IF pc = "fixrun" THEN Call("run_command", PlanIndex, retry_count + 1)
    ELSE IF pc = "report" /\ ReportAsks
         THEN Call("ask_fix_for_failure", Len(final.results), -1)
    ELSE NoCall

SettledNever(fl, call) == fl

\* `.await`: the unit goes on only when the call has returned
Settled(fl, call) == fl \ {call}

\* The unit makes the call of its position and waits for it
Begin ==
    /\ ThisCall # NoCall
    /\ ThisCall \notin inflight
    /\ inflight' = inflight \cup {ThisCall}
    /\ UNCHANGED <<pc, intent, commands, lcmds, all, i, result, retry_count, fix_cmd,
                   results, final, report, sent, cur, nrun, nfixLoop, nfixReport, lret, nppt, ppt_how,
                   lastAsk, cfgvars, execvars, unitvars, fnvars>>

RestOfPlanRewrittenAnyway(cmds, screen_index) ==
    LET tail == SubSeq(cmds, 2, Len(cmds))
        idx == IF screen_index # None THEN screen_index[1] ELSE 0
    IN [k \in 1..Len(tail) |->
          [tail[k] EXCEPT !.command = replace_avfoundation_device_index(tail[k].command, idx)]]

\* `rest` of the device-index branch: commands[1..], its first command
\* rewritten when the probe's stdout gave an index
RestOfPlan(cmds, screen_index) ==
    LET tail == SubSeq(cmds, 2, Len(cmds)) IN
    IF screen_index # None
    THEN [tail EXCEPT ![1].command =
            replace_avfoundation_device_index(tail[1].command, screen_index[1])]
    ELSE tail

\* The device-index branch: the probe is run directly
RunProbe ==
    /\ pc = "probe"
    /\ ThisCall \in inflight
    /\ inflight' = Settled(inflight, ThisCall)
    /\ \E beh \in BotBehaviours(commands[1].command) :
         LET ret == run_command(commands[1].command, beh)
             r0 == ret.result[1]
             rest == RestOfPlan(commands, parse_avfoundation_screen_index(r0.stdout))
         IN /\ cur' = 1
            /\ nrun' = 1
            /\ IF ret.tag = "Panic"
               THEN /\ pc' = "aborted"
                    /\ UNCHANGED <<all, lcmds, i, lret>>
               ELSE /\ pc' = "run"
                    /\ i' = 1
                    /\ all' = IF ret.tag = "Ok" THEN <<r0>> ELSE <<>>
                    /\ lcmds' = IF ret.tag = "Ok" THEN rest ELSE commands
                    /\ lret' = Unset(Len(lcmds'))
    /\ UNCHANGED <<intent, commands, result, retry_count, fix_cmd, results, final, report, sent,
                   nfixLoop, nfixReport, nppt, ppt_how, lastAsk,
                   cfgvars, execvars, unitvars, fnvars>>

RepairWantedOnceMore(r, rc) == ~r.success /\ rc <= max_fix_retries

RepairWantedAnyway(r, rc) == rc < max_fix_retries

RepairWantedTwiceMore(r, rc) == ~r.success /\ rc < max_fix_retries + 2

\* The while condition of the repair loop
RepairWanted(r, rc) == ~r.success /\ rc < max_fix_retries

StopAfterPushNever(r) == FALSE

\* The break after a failure is pushed
StopAfterPush(r) == ~r.success

\* results.push(result), then the break or the next iteration; the function
\* returns to process_message when the loop ends
PushResult(r) ==
    LET rs == Append(results, r) IN
    /\ results' = rs
    /\ result' = <<>>
    /\ retry_count' = 0
    /\ fix_cmd' = <<>>
    /\ IF StopAfterPush(r) \/ i + 1 > Len(lcmds)
       THEN /\ pc' = "report"
            /\ i' = i
            /\ final' = [results |-> all \o rs, extra |-> <<>>]
            /\ report' = format_results(commands, all \o rs)
       ELSE /\ pc' = "run"
            /\ i' = i + 1
            /\ final' = final
            /\ report' = report

\* After a run gave r with rc repairs made: repair again, or push
Continue(r, rc) ==
    IF RepairWanted(r, rc)
    THEN /\ pc' = "askfix"
         /\ result' = Some(r)
         /\ retry_count' = rc
         /\ fix_cmd' = <<>>
         /\ UNCHANGED <<results, i, final, report>>
    ELSE PushResult(r)

\* The first run of lcmds[i]
RunFirst ==
    /\ pc = "run"
    /\ ThisCall \in inflight
    /\ inflight' = Settled(inflight, ThisCall)
    /\ lastAsk' = "none"
    /\ \E beh \in BotBehaviours(lcmds[i].command) :
         LET cmd == lcmds[i].command
             ret == run_command(cmd, beh)
         IN /\ cur' = PlanIndex
            /\ nrun' = IF cur = PlanIndex THEN nrun + 1 ELSE 1
            /\ nfixLoop' = IF cur = PlanIndex THEN nfixLoop ELSE 0
            /\ lret' = [lret EXCEPT ![i] = Some(ret)]
            /\ IF ret.tag = "Panic"
               THEN /\ pc' = "aborted"
                    /\ UNCHANGED <<result, retry_count, fix_cmd, results, i, final, report>>
               ELSE IF ret.tag = "Err"
               THEN PushResult(ErrResult(cmd, ret.msg))
               ELSE Continue(ret.result[1], 0)
    /\ UNCHANGED <<intent, commands, lcmds, all, sent, nfixReport, nppt, ppt_how,
                   cfgvars, execvars, unitvars, fnvars>>

FixCommandRerunsOnErr(ans, failed) ==
    IF ans.tag = "Err" THEN Some(failed) ELSE ans.extracted

FixCommandRerunsOnNone(ans, failed) ==
    IF ans.tag = "Err" THEN None
    ELSE IF ans.extracted = None THEN Some(failed) ELSE ans.extracted

\* The two matches of the repair loop on the answer of ask_fix_for_failure: the
\* command to run next, or None for a break (the call failed, or no command
\* could be extracted from the suggestion)
FixCommand(ans, failed) ==
    IF ans.tag = "Err" THEN None ELSE ans.extracted

\* One ask_fix_for_failure of the repair loop and the extraction of its command
AskFix ==
    /\ pc = "askfix"
    /\ ThisCall \in inflight
    /\ inflight' = Settled(inflight, ThisCall)
    /\ nfixLoop' = nfixLoop + 1
    /\ \E ans \in FixAnswers(result[1].command) :
         LET next_cmd == FixCommand(ans, result[1].command) IN
         /\ lastAsk' = (IF ans.tag = "Err" THEN "err"
                        ELSE IF ans.extracted = None THEN "nocmd" ELSE "cmd")
         /\ IF next_cmd = None
            THEN PushResult(result[1])
            ELSE /\ fix_cmd' = next_cmd
                 /\ pc' = "fixrun"
                 /\ UNCHANGED <<result, retry_count, results, i, final, report>>
    /\ UNCHANGED <<intent, commands, lcmds, all, sent, cur, nrun, lret, nfixReport, nppt, ppt_how,
                   cfgvars, execvars, unitvars, fnvars>>

AfterFixRunKeepsResultOnErr(ret, fix, prev) ==
    IF ret.tag = "Ok" THEN ret.result[1] ELSE prev

\* The match on the fix command's run_command: `result` after it, prev being
\* `result` before it
AfterFixRun(ret, fix, prev) ==
    IF ret.tag = "Ok" THEN ret.result[1] ELSE ErrResult(fix, ret.msg)

\* The run of the extracted fix command
RunFix ==
    /\ pc = "fixrun"
    /\ ThisCall \in inflight
    /\ inflight' = Settled(inflight, ThisCall)
    /\ \E beh \in BotBehaviours(fix_cmd[1]) :
         LET ret == run_command(fix_cmd[1], beh)
         IN /\ nrun' = nrun + 1
            /\ lret' = [lret EXCEPT ![i] = Some(ret)]
            /\ IF ret.tag = "Panic"
               THEN /\ pc' = "aborted"
                    /\ UNCHANGED <<result, retry_count, fix_cmd, results, i, final, report>>
               ELSE Continue(AfterFixRun(ret, fix_cmd[1], result[1]), retry_count + 1)
    /\ UNCHANGED <<intent, commands, lcmds, all, sent, cur, nfixLoop, nfixReport, nppt, ppt_how,
                   lastAsk, cfgvars, execvars, unitvars, fnvars>>

\* The report: one more ask_fix_for_failure when the last result is a failure,
\* then the report (when echo_result is set) and the extra documents
Report ==
    /\ pc = "report"
    /\ ReportAsks => ThisCall \in inflight
    /\ inflight' = Settled(inflight, ThisCall)
    /\ nfixReport' = IF ReportAsks THEN nfixReport + 1 ELSE nfixReport
    /\ \E advice \in IF ReportAsks THEN {"report_suggestion", "report_no_suggestion"}
                     ELSE {"report"} :
         sent' = sent \o (IF echo_result THEN <<advice>> ELSE <<>>) \o final.extra
    /\ pc' = "done"
    /\ UNCHANGED <<intent, commands, lcmds, all, i, result, retry_count, fix_cmd, results,
                   final, report, cur, nrun, lret, nfixLoop, nppt, ppt_how, lastAsk,
                   cfgvars, execvars, unitvars, fnvars>>

Next ==
    Classify \/ GeneratePpt \/ Begin \/ RunProbe \/ RunFirst \/ AskFix \/ RunFix \/ Report

Spec == Init /\ [][Next]_vars

\* The same unit under the proviso that every awaited call returns: each
\* .await of process_message is followed by the code after it, so a step of
\* the unit that is possible is eventually taken
SpecFair == Init /\ [][Next]_vars /\ WF_vars(Next)

-----------------------------------------------------------------------------
(* Several handling units at once: SpecUnits.  handle_message spawns one    *)
(* process_message per message; the units here are those whose Plan starts  *)
(* with a recognised ppt-generator command, one message each.               *)

Units == 1..MaxUnits

\* The command of unit u's Plan and the markup generate_ppt_html returns for
\* its content
UnitCommand(u) == Cmd("ppt", u, -1)

Markup(u) == [content |-> u]

\* The chats messages come from, and the lists of allowed chats
ChatIds == {1, 2}

AllowLists == {<<>>, <<1>>}

\* What a message is: a text message, a message without text, or a message
\* the bot itself has sent
MessageKinds == {"text", "photo", "own"}

UInit ==
    /\ max_fix_retries = 0 /\ activate_venv = None /\ echo_result = TRUE
    /\ allowed_chat_ids \in AllowLists
    /\ BotIdle /\ ExecIdle /\ FnIdle
    /\ task_counter = 1
    /\ \E chat \in [Units -> ChatIds], kind \in [Units -> MessageKinds] :
         units = [u \in Units |-> [chat |-> chat[u], kind |-> kind[u], pc |-> "arrived",
                                   tid |-> 0, results |-> <<>>, extra |-> <<>>,
                                   docs |-> <<>>]]
    /\ slides = <<>>

ChatAllowedWhoever(allowed_chats, chat_id) == TRUE

\* The test on allowed_chats: an empty list lets every chat in
ChatAllowed(allowed_chats, chat_id) ==
    ~(allowed_chats # <<>> /\ ~(\E k \in 1..Len(allowed_chats) : allowed_chats[k] = chat_id))

fetch_add_LosingTheUpdate(counter) == [old |-> counter, new |-> counter]

\* TASK_COUNTER.fetch_add(1, Ordering::Relaxed): one atomic read-modify-write,
\* giving the value before it
fetch_add(counter) == [old |-> counter, new |-> counter + 1]

\* handle_message: a message of the bot itself is dropped; otherwise the task
\* id is drawn, a message from a chat that is not allowed or a message without
\* text is dropped, and process_message is spawned for any other
HandleMessage(u) ==
    /\ units[u].pc = "arrived"
    /\ IF units[u].kind = "own"
       THEN /\ units' = [units EXCEPT ![u].pc = "ignored"]
            /\ UNCHANGED task_counter
       ELSE /\ task_counter' = fetch_add(task_counter).new
            /\ units' = [units EXCEPT
                           ![u].tid = fetch_add(task_counter).old,
                           ![u].pc = IF ~ChatAllowed(allowed_chat_ids, units[u].chat)
                                     THEN "ignored"
                                     ELSE IF units[u].kind # "text" THEN "ignored"
                                     ELSE "classify"]
    /\ UNCHANGED <<slides, cfgvars, botvars, execvars, fnvars>>

\* process_message up to the Plan
UClassify(u) ==
    /\ units[u].pc = "classify"
    /\ units' = [units EXCEPT ![u].pc = "ppt"]
    /\ UNCHANGED <<task_counter, slides, cfgvars, botvars, execvars, fnvars>>

\* generate_ppt_html for the unit's content, then std::fs::write to the path
UGenerate(u) ==
    /\ units[u].pc = "ppt"
    /\ \E how \in {"saved", "write", "llm"} :
         LET out == PptOutcome(UnitCommand(u), how) IN
         /\ units' = [units EXCEPT ![u].pc = "report", ![u].results = out.results,
                                   ![u].extra = out.extra]
         /\ slides' = IF how = "saved" THEN <<Markup(u)>> ELSE slides
    /\ UNCHANGED <<task_counter, cfgvars, botvars, execvars, fnvars>>

\* The report is built and sent (ask_fix_for_failure, edit_or_send)
UReport(u) ==
    /\ units[u].pc = "report"
    /\ units' = [units EXCEPT ![u].pc = "docs"]
    /\ UNCHANGED <<task_counter, slides, cfgvars, botvars, execvars, fnvars>>

\* send_document for every extra path: the file is read when it is sent
USendDocs(u) ==
    /\ units[u].pc = "docs"
    /\ \E delivered \in BOOLEAN :
         units' = [units EXCEPT
                     ![u].pc = "done",
                     ![u].docs = IF units[u].extra # <<>> /\ slides # <<>> /\ delivered
                                 THEN <<slides[1]>> ELSE <<>>]
    /\ UNCHANGED <<task_counter, slides, cfgvars, botvars, execvars, fnvars>>

UNext ==
    \E u \in Units :
      \/ HandleMessage(u)
      \/ UClassify(u)
      \/ UGenerate(u)
      \/ UReport(u)
      \/ USendDocs(u)

SpecUnits == UInit /\ [][UNext]_vars

-----------------------------------------------------------------------------
(* The text functions of bot.rs.  A string is the sequence of its          *)
(* characters; every character used is ASCII, so byte and character        *)
(* offsets agree.                                                          *)

\* The backtick, which no string of this notation can hold
BT == "<backtick>"

\* The printable ASCII characters in code order, from the space (32) on
Printable ==
    <<" ", "!", "\"", "#", "$", "%", "&", "'", "(", ")", "*", "+", ",", "-", ".", "/",
      "0", "1", "2", "3", "4", "5", "6", "7", "8", "9", ":", ";", "<", "=", ">", "?",
      "@", "A", "B", "C", "D", "E", "F", "G", "H", "I", "J", "K", "L", "M", "N", "O",
      "P", "Q", "R", "S", "T", "U", "V", "W", "X", "Y", "Z", "[", "\\", "]", "^", "_",
      BT, "a", "b", "c", "d", "e", "f", "g", "h", "i", "j", "k", "l", "m", "n", "o",
      "p", "q", "r", "s", "t", "u", "v", "w", "x", "y", "z", "{", "|", "}", "~">>

\* The code of a character
Code(c) ==
    IF c = "\n" THEN 10 ELSE IF c = "\t" THEN 9
    ELSE 31 + (CHOOSE k \in 1..Len(Printable) : Printable[k] = c)

\* char::is_whitespace, char::is_ascii_digit
IsWhitespace(c) == c \in {" ", "\n", "\t"}

IsAsciiDigit(c) == c \in {"0", "1", "2", "3", "4", "5", "6", "7", "8", "9"}

\* s[a..b] with 0-based offsets, b exclusive
Slice(s, a, b) == SubSeq(s, a + 1, b)

SliceFrom(s, a) == SubSeq(s, a + 1, Len(s))

MinOf(S) == CHOOSE x \in S : \A y \in S : x <= y

MaxOf(S) == CHOOSE x \in S : \A y \in S : x >= y

\* The offsets at which pat occurs in s
Occurrences(s, pat) ==
    {k \in 0..(Len(s) - Len(pat)) : SubSeq(s, k + 1, k + Len(pat)) = pat}

\* str::find, str::rfind, str::contains, str::starts_with, str::ends_with
Find(s, pat) == IF Occurrences(s, pat) = {} THEN None ELSE Some(MinOf(Occurrences(s, pat)))

RFind(s, pat) == IF Occurrences(s, pat) = {} THEN None ELSE Some(MaxOf(Occurrences(s, pat)))

Contains(s, pat) == Occurrences(s, pat) # {}

StartsWith(s, pat) == Len(pat) <= Len(s) /\ SubSeq(s, 1, Len(pat)) = pat

EndsWith(s, pat) == Len(pat) <= Len(s) /\ SubSeq(s, Len(s) - Len(pat) + 1, Len(s)) = pat

\* str::trim_matches: every leading and trailing character of the set goes
TrimMatches(s, chars) ==
    LET keep == {k \in 1..Len(s) : s[k] \notin chars} IN
    IF keep = {} THEN <<>> ELSE SubSeq(s, MinOf(keep), MaxOf(keep))

\* str::trim
Trim(s) == TrimMatches(s, {" ", "\n", "\t"})

\* str::trim_start
TrimStart(s) ==
    LET keep == {k \in 1..Len(s) : ~IsWhitespace(s[k])} IN
    IF keep = {} THEN <<>> ELSE SubSeq(s, MinOf(keep), Len(s))

RECURSIVE Lines(_)
\* str::lines: split at the line feeds, without an empty last line
Lines(s) ==
    IF s = <<>> THEN <<>>
    ELSE LET nl == Find(s, <<"\n">>) IN
         IF nl = None THEN <<s>>
         ELSE <<Slice(s, 0, nl[1])>> \o Lines(SliceFrom(s, nl[1] + 1))

RECURSIVE SplitWhitespace(_)
\* str::split_whitespace
SplitWhitespace(s) ==
    LET start == {k \in 1..Len(s) : ~IsWhitespace(s[k])} IN
    IF start = {} THEN <<>>
    ELSE LET a == MinOf(start)
             stop == {k \in a..Len(s) : IsWhitespace(s[k])}
             b == IF stop = {} THEN Len(s) + 1 ELSE MinOf(stop)
         IN <<SubSeq(s, a, b - 1)>> \o SplitWhitespace(SubSeq(s, b, Len(s)))

\* str::to_lowercase on ASCII text
ToLowercase(s) ==
    [k \in 1..Len(s) |->
       IF s[k] \in {"\n", "\t"} THEN s[k]
       ELSE IF Code(s[k]) >= 65 /\ Code(s[k]) <= 90 THEN Printable[Code(s[k]) + 32 - 31]
       ELSE s[k]]

\* Ord for String: byte by byte, a proper prefix first
StrLess(a, b) ==
    LET n == IF Len(a) < Len(b) THEN Len(a) ELSE Len(b)
        diff == {k \in 1..n : a[k] # b[k]}
    IN IF diff = {} THEN Len(a) < Len(b)
       ELSE Code(a[MinOf(diff)]) < Code(b[MinOf(diff)])

RECURSIVE Join(_, _)
\* The lines joined by sep
Join(q, sep) ==
    IF q = <<>> THEN <<>>
    ELSE IF Len(q) = 1 THEN q[1]
    ELSE q[1] \o sep \o Join(Tail(q), sep)

\* Iterator::next
FirstOr(q, default) == IF q = <<>> THEN default ELSE Some(q[1])

-----------------------------------------------------------------------------
(* extract_command_from_suggestion: SpecExtract *)

Fence == <<BT, BT, BT>>

\* The first rule: the fenced block
FencedCommand(s) ==
    LET a == Find(s, Fence) IN
    IF a = None THEN None
    ELSE LET rest == SliceFrom(s, a[1] + 3)
             b == Find(rest, Fence)
             block == IF b # None THEN Trim(Slice(rest, 0, b[1])) ELSE Trim(rest)
             first_line == IF Lines(block) = <<>> THEN <<>> ELSE Trim(Lines(block)[1])
             one == SelectSeq(Lines(block),
                              LAMBDA l : Trim(l) # <<>> /\ ~StartsWith(Trim(l), <<"#">>))
         IN IF first_line # <<>> /\ ~StartsWith(first_line, <<"#">>) THEN Some(first_line)
            ELSE IF Len(Lines(block)) <= 2 /\ one # <<>> THEN Some(Trim(one[1]))
            ELSE None

\* The second rule: the text between the first two backticks
BacktickedCommand(s) ==
    LET start == Find(s, <<BT>>) IN
    IF start = None THEN None
    ELSE LET after == SliceFrom(s, start[1] + 1)
             end == Find(after, <<BT>>)
             inner == Trim(Slice(after, 0, end[1]))
         IN IF end # None /\ inner # <<>>
               /\ (Contains(inner, <<" ">>) \/ StartsWith(inner, <<"/">>)
                   \/ StartsWith(inner, <<"e", "c", "h", "o">>))
            THEN Some(inner)
            ELSE None

KnownPrefix(line) ==
    \/ StartsWith(line, <<"f", "f", "m", "p", "e", "g", " ">>)
    \/ StartsWith(line, <<"p", "y", "t", "h", "o", "n", " ">>)
    \/ StartsWith(line, <<"p", "y", "t", "h", "o", "n", "3", " ">>)
    \/ StartsWith(line, <<"/", "u", "s", "r", "/", "b", "i", "n", "/", "p", "y", "t", "h", "o", "n">>)
    \/ StartsWith(line, <<"p", "i", "p", " ">>)
    \/ StartsWith(line, <<"s", "o", "u", "r", "c", "e", " ">>)
    \/ (StartsWith(line, <<"/">>) /\ Contains(line, <<"p", "y", "t", "h", "o", "n">>))

\* The third rule: the first line with a known prefix
PrefixedCommand(s) ==
    LET trimmed == [k \in 1..Len(Lines(s)) |-> Trim(Lines(s)[k])]
        hits == SelectSeq(trimmed,
                          LAMBDA line : line # <<>> /\ ~StartsWith(line, <<"#">>)
                                        /\ KnownPrefix(line))
    IN FirstOr(hits, None)

extract_command_backticks_first(s) ==
    IF Trim(s) = <<>> THEN None
    ELSE IF BacktickedCommand(Trim(s)) # None THEN BacktickedCommand(Trim(s))
    ELSE IF FencedCommand(Trim(s)) # None THEN FencedCommand(Trim(s))
    ELSE PrefixedCommand(Trim(s))

extract_command_from_suggestion(s) ==
    IF Trim(s) = <<>> THEN None
    ELSE IF FencedCommand(Trim(s)) # None THEN FencedCommand(Trim(s))
    ELSE IF BacktickedCommand(Trim(s)) # None THEN BacktickedCommand(Trim(s))
    ELSE PrefixedCommand(Trim(s))

\* The lines suggestions are made of: what a line is, its text, and for a
\* fence the tag after it, for a backticked span the text inside and whether it
\* holds a space or starts with "/" or "echo"
SuggestionLine(kind, text, inner, runs) ==
    [kind |-> kind, text |-> text, inner |-> inner, runs |-> runs]

SuggestionLines ==
    {SuggestionLine("fence", <<BT, BT, BT>>, <<>>, FALSE),
     SuggestionLine("fence", <<BT, BT, BT, "s", "h">>, <<"s", "h">>, FALSE),
     SuggestionLine("span", <<BT, "l", "s", " ", "-", "l", BT>>, <<"l", "s", " ", "-", "l">>, TRUE),
     SuggestionLine("span", <<BT, "l", "s", BT>>, <<"l", "s">>, FALSE),
     SuggestionLine("comment", <<"#", " ", "c">>, <<>>, FALSE),
     SuggestionLine("known", <<"p", "i", "p", " ", "i">>, <<>>, FALSE),
     SuggestionLine("plain", <<"l", "s">>, <<>>, FALSE)}

Suggestion(q) == [lines |-> q, text |-> Join([k \in 1..Len(q) |-> q[k].text], <<"\n">>)]

EInit ==
    /\ max_fix_retries = 0 /\ activate_venv = None /\ echo_result = TRUE
    /\ allowed_chat_ids = <<>>
    /\ BotIdle /\ ExecIdle /\ UnitsIdle
    /\ fin \in {Suggestion(q) : q \in SeqsUpTo(SuggestionLines, MaxLines) \ {<<>>}}
    /\ fout = <<>>

ExtractCommand ==
    /\ fin # <<>> /\ fout = <<>>
    /\ fout' = <<extract_command_from_suggestion(fin.text)>>
    /\ UNCHANGED <<fin, cfgvars, botvars, execvars, unitvars>>

SpecExtract == EInit /\ [][ExtractCommand]_vars

-----------------------------------------------------------------------------
(* find_file_paths_by_ext, find_image_paths, find_video_paths: SpecPaths *)

IMAGE_EXTENSIONS ==
    <<<<".", "p", "n", "g">>, <<".", "j", "p", "g">>, <<".", "j", "p", "e", "g">>,
      <<".", "g", "i", "f">>, <<".", "b", "m", "p">>, <<".", "w", "e", "b", "p">>>>

VIDEO_EXTENSIONS ==
    <<<<".", "m", "p", "4">>, <<".", "w", "e", "b", "m">>, <<".", "m", "o", "v">>,
      <<".", "m", "k", "v">>, <<".", "a", "v", "i">>>>

find_file_paths_without_lowercase(text, exts) ==
    LET words == SplitWhitespace(text)
        paths == [k \in 1..Len(words) |-> TrimMatches(words[k], {"\"", "'"})]
    IN SelectSeq(paths,
                 LAMBDA path :
                   /\ \E e \in 1..Len(exts) : EndsWith(path, exts[e])
                   /\ (StartsWith(path, <<"/">>) \/ StartsWith(path, <<".", "/">>)))

find_file_paths_by_ext(text, exts) ==
    LET words == SplitWhitespace(text)
        paths == [k \in 1..Len(words) |-> TrimMatches(words[k], {"\"", "'"})]
    IN SelectSeq(paths,
                 LAMBDA path :
                   /\ \E e \in 1..Len(exts) : EndsWith(ToLowercase(path), exts[e])
                   /\ (StartsWith(path, <<"/">>) \/ StartsWith(path, <<".", "/">>)))

find_image_paths(text) == find_file_paths_by_ext(text, IMAGE_EXTENSIONS)

find_video_paths(text) == find_file_paths_by_ext(text, VIDEO_EXTENSIONS)

\* A whitespace-separated word of a scanned text: its text, the text without
\* the quotes around it, whether that starts with "/" or "./", whether it ends
\* with an image or a video extension in any casing, and the number of quote
\* characters before and after it
Word(text, path, rooted, image, video, lead, trail) ==
    [text |-> text, path |-> path, rooted |-> rooted, image |-> image, video |-> video,
     lead |-> lead, trail |-> trail]

WordList ==
    <<Word(<<"/", "t", "m", "p", "/", "o", "u", "t", ".", "P", "N", "G">>,
           <<"/", "t", "m", "p", "/", "o", "u", "t", ".", "P", "N", "G">>, TRUE, TRUE, FALSE, 0, 0),
      Word(<<".", "/", "x", ".", "m", "p", "4">>,
           <<".", "/", "x", ".", "m", "p", "4">>, TRUE, FALSE, TRUE, 0, 0),
      Word(<<"\"", "/", "a", ".", "j", "p", "e", "g", "\"">>,
           <<"/", "a", ".", "j", "p", "e", "g">>, TRUE, TRUE, FALSE, 1, 1),
      Word(<<"'", "\"", "/", "a", ".", "w", "e", "b", "m", "\"">>,
           <<"/", "a", ".", "w", "e", "b", "m">>, TRUE, FALSE, TRUE, 2, 1),
      Word(<<"/", "b", ".", "g", "i", "f", "\"", "\"">>,
           <<"/", "b", ".", "g", "i", "f">>, TRUE, TRUE, FALSE, 0, 2),
      Word(<<"a", ".", "p", "n", "g">>,
           <<"a", ".", "p", "n", "g">>, FALSE, TRUE, FALSE, 0, 0),
      Word(<<"/", "a", ".", "t", "x", "t">>,
           <<"/", "a", ".", "t", "x", "t">>, TRUE, FALSE, FALSE, 0, 0),
      Word(<<"s", "a", "v", "e", "d">>,
           <<"s", "a", "v", "e", "d">>, FALSE, FALSE, FALSE, 0, 0),
      Word(<<"/", "t", "m", "p", "/", "o", "u", "t", ".", "p", "n", "g">>,
           <<"/", "t", "m", "p", "/", "o", "u", "t", ".", "p", "n", "g">>, TRUE, TRUE, FALSE, 0, 0)>>

Words == {WordList[k] : k \in 1..Len(WordList)}

\* The text of the example: saved to /tmp/out.PNG and ./x.mp4
ExampleWords ==
    <<Word(<<"s", "a", "v", "e", "d">>, <<"s", "a", "v", "e", "d">>, FALSE, FALSE, FALSE, 0, 0),
      Word(<<"t", "o">>, <<"t", "o">>, FALSE, FALSE, FALSE, 0, 0),
      Word(<<"/", "t", "m", "p", "/", "o", "u", "t", ".", "P", "N", "G">>, <<"/", "t", "m", "p", "/", "o", "u", "t", ".", "P", "N", "G">>, TRUE, TRUE, FALSE, 0, 0),
      Word(<<"a", "n", "d">>, <<"a", "n", "d">>, FALSE, FALSE, FALSE, 0, 0),
      Word(<<".", "/", "x", ".", "m", "p", "4">>, <<".", "/", "x", ".", "m", "p", "4">>, TRUE, FALSE, TRUE, 0, 0)>>

ScannedText(q) == [words |-> q, text |-> Join([k \in 1..Len(q) |-> q[k].text], <<" ">>)]

PInit ==
    /\ max_fix_retries = 0 /\ activate_venv = None /\ echo_result = TRUE
    /\ allowed_chat_ids = <<>>
    /\ BotIdle /\ ExecIdle /\ UnitsIdle
    /\ fin \in {ScannedText(q) : q \in SeqsUpTo(Words, MaxWords) \cup {ExampleWords}}
    /\ fout = <<>>

FindPaths ==
    /\ fin # <<>> /\ fout = <<>>
    /\ fout' = <<[images |-> find_image_paths(fin.text),
                  videos |-> find_video_paths(fin.text)]>>
    /\ UNCHANGED <<fin, cfgvars, botvars, execvars, unitvars>>

SpecPaths == PInit /\ [][FindPaths]_vars

-----------------------------------------------------------------------------
(* find_images_in_results, find_videos_in_results: SpecScan *)

RECURSIVE Sort(_)
\* Vec::sort
Sort(q) ==
    IF q = <<>> THEN <<>>
    ELSE LET rest == Sort(Tail(q))
             before == SelectSeq(rest, LAMBDA x : StrLess(x, Head(q)) \/ x = Head(q))
             after == SelectSeq(rest, LAMBDA x : StrLess(Head(q), x))
         IN before \o <<Head(q)>> \o after

RECURSIVE Dedup(_)
\* Vec::dedup: of consecutive equal elements the first stays
Dedup(q) ==
    IF Len(q) <= 1 THEN q
    ELSE IF q[1] = q[2] THEN Dedup(Tail(q))
    ELSE <<q[1]>> \o Dedup(Tail(q))

RECURSIVE ExtendFromResults(_, _)
\* The for loop: the paths of stdout, stderr and command of every result
ExtendFromResults(rs, exts) ==
    IF rs = <<>> THEN <<>>
    ELSE find_file_paths_by_ext(rs[1].stdout.text, exts)
         \o find_file_paths_by_ext(rs[1].stderr.text, exts)
         \o find_file_paths_by_ext(rs[1].command.text, exts)
         \o ExtendFromResults(Tail(rs), exts)

find_in_results_without_dedup(rs, exts) == Sort(ExtendFromResults(rs, exts))

find_in_results(rs, exts) == Dedup(Sort(ExtendFromResults(rs, exts)))

find_images_in_results(rs) == find_in_results(rs, IMAGE_EXTENSIONS)

find_videos_in_results(rs) == find_in_results(rs, VIDEO_EXTENSIONS)

\* The texts the results are made of: none, one with its images out of
\* order, one that repeats a path and has it in another casing too
NoText == ScannedText(<<>>)

UnorderedText == ScannedText(<<WordList[1], WordList[5], WordList[2]>>)

RepeatingText ==
    ScannedText(<<WordList[3], WordList[1], WordList[9], WordList[4], WordList[1]>>)

ScannedResults ==
    [stdout : {UnorderedText, RepeatingText}, stderr : {NoText, RepeatingText},
     command : {NoText, UnorderedText}]

SInit ==
    /\ max_fix_retries = 0 /\ activate_venv = None /\ echo_result = TRUE
    /\ allowed_chat_ids = <<>>
    /\ BotIdle /\ ExecIdle /\ UnitsIdle
    /\ fin \in {[results |-> q] : q \in SeqsUpTo(ScannedResults, MaxResults)}
    /\ fout = <<>>

\* process_message scans its results; a second scan of the same results
ScanResults ==
    /\ fin # <<>> /\ Len(fout) < 2
    /\ fout' = Append(fout, [images |-> find_images_in_results(fin.results),
                             videos |-> find_videos_in_results(fin.results)])
    /\ UNCHANGED <<fin, cfgvars, botvars, execvars, unitvars>>

SpecScan == SInit /\ [][ScanResults]_vars

-----------------------------------------------------------------------------
(* parse_avfoundation_screen_index on the text of stdout: SpecIndex *)

CaptureScreen == <<"C", "a", "p", "t", "u", "r", "e", " ", "s", "c", "r", "e", "e", "n">>

RECURSIVE DecimalValue(_)
\* The number a string of digits denotes
DecimalValue(d) ==
    IF d = <<>> THEN 0
    ELSE 10 * DecimalValue(SubSeq(d, 1, Len(d) - 1)) + (Code(d[Len(d)]) - 48)

\* u32::MAX as it is written
U32MaxDigits == <<"4", "2", "9", "4", "9", "6", "7", "2", "9", "5">>

\* str::parse::<u32>: digits only, and no more than u32::MAX
ParseU32(d) ==
    LET significant == {k \in 1..Len(d) : d[k] # "0"}
        digits == IF significant = {} THEN <<>> ELSE SubSeq(d, MinOf(significant), Len(d))
    IN IF d = <<>> \/ (\E k \in 1..Len(d) : ~IsAsciiDigit(d[k])) THEN None
       ELSE IF Len(digits) > Len(U32MaxDigits) THEN None
       ELSE IF Len(digits) = Len(U32MaxDigits) /\ StrLess(U32MaxDigits, digits) THEN None
       ELSE Some(DecimalValue(digits))

RECURSIVE ScanBack(_, _)
\* The while loop over the text before the marker, from offset idx backward
ScanBack(before_cap, idx) ==
    IF idx <= 0 THEN None
    ELSE LET close == RFind(Slice(before_cap, 0, idx), <<"]">>) IN
         IF close = None THEN None
         ELSE LET open == RFind(Slice(before_cap, 0, close[1]), <<"[">>) IN
              IF open = None THEN None
              ELSE LET between == Trim(Slice(before_cap, open[1] + 1, close[1])) IN
                   IF between # <<>> /\ (\A k \in 1..Len(between) : IsAsciiDigit(between[k]))
                      /\ ParseU32(between) # None
                   THEN ParseU32(between)
                   ELSE ScanBack(before_cap, close[1])

\* A variant that reads the bracket group nearest the marker and no other
IndexOfLineFirstGroupOnly(line) ==
    IF ~Contains(line, CaptureScreen) THEN None
    ELSE LET before_cap == Slice(line, 0, Find(line, CaptureScreen)[1])
             close == RFind(before_cap, <<"]">>)
             open == IF close = None THEN None
                     ELSE RFind(Slice(before_cap, 0, close[1]), <<"[">>)
         IN IF close = None \/ open = None THEN None
            ELSE ParseU32(Trim(Slice(before_cap, open[1] + 1, close[1])))

\* One iteration of the for loop: what a line yields, None to go on
IndexOfLine(line) ==
    IF ~Contains(line, CaptureScreen) THEN None
    ELSE LET before_cap == Slice(line, 0, Find(line, CaptureScreen)[1])
         IN ScanBack(before_cap, Len(before_cap))

\* The for loop over stdout.lines()
parse_avfoundation_screen_index_text(stdout) ==
    LET found == SelectSeq(Lines(stdout), LAMBDA line : IndexOfLine(line) # None)
    IN IF found = <<>> THEN None ELSE IndexOfLine(found[1])

\* What stands before the marker on a line of stdout, in order: a bracket
\* group of digits with its value ("digits"), a bracket group of digits too
\* large for u32 ("big"), another bracket group ("group"), text ("text")
Piece(kind, value) == [kind |-> kind, value |-> value]

OutLine(text, marker, pieces) == [text |-> text, marker |-> marker, pieces |-> pieces]

OutLines ==
    <<OutLine(<<"[", "0", "]", " ", "C", "a", "p", "t", "u", "r", "e", " ", "s", "c", "r",
            "e", "e", "n", " ", "0">>,
              TRUE, <<Piece("digits", 0)>>),
      OutLine(<<"[", "A", "V", "F", "o", "u", "n", "d", "a", "t", "i", "o", "n", " ", "i",
            "n", "d", "e", "v", " ", "@", " ", "0", "x", "1", "]", " ", "[", "1", "]",
            " ", "C", "a", "p", "t", "u", "r", "e", " ", "s", "c", "r", "e", "e", "n",
            " ", "0">>,
              TRUE, <<Piece("group", -1), Piece("digits", 1)>>),
      OutLine(<<"[", "A", "V", "F", "o", "u", "n", "d", "a", "t", "i", "o", "n", " ", "i",
            "n", "d", "e", "v", " ", "@", " ", "0", "x", "1", "]", " ", "[", "0", "]",
            " ", "F", "a", "c", "e", "T", "i", "m", "e", " ", "H", "D", " ", "C", "a",
            "m", "e", "r", "a">>,
              FALSE, <<Piece("group", -1), Piece("digits", 0)>>),
      OutLine(<<"C", "a", "p", "t", "u", "r", "e", " ", "s", "c", "r", "e", "e", "n", " ",
            "0">>,
              TRUE, <<>>),
      OutLine(<<"[", "2", "]", " ", "d", "e", "v", " ", "[", "x", "]", " ", "C", "a", "p",
            "t", "u", "r", "e", " ", "s", "c", "r", "e", "e", "n", " ", "1">>,
              TRUE, <<Piece("digits", 2), Piece("text", -1), Piece("group", -1)>>),
      OutLine(<<"[", "4", "2", "9", "4", "9", "6", "7", "2", "9", "6", "]", " ", "C", "a",
            "p", "t", "u", "r", "e", " ", "s", "c", "r", "e", "e", "n", " ", "2">>,
              TRUE, <<Piece("big", -1)>>),
      OutLine(<<"[", "3", "]", " ", "[", " ", "1", "2", " ", "]", " ", "C", "a", "p", "t",
            "u", "r", "e", " ", "s", "c", "r", "e", "e", "n", " ", "0">>,
              TRUE, <<Piece("digits", 3), Piece("digits", 12)>>)>>

ProbeStdout(q) == [lines |-> q, text |-> Join([k \in 1..Len(q) |-> q[k].text], <<"\n">>)]

IInit ==
    /\ max_fix_retries = 0 /\ activate_venv = None /\ echo_result = TRUE
    /\ allowed_chat_ids = <<>>
    /\ BotIdle /\ ExecIdle /\ UnitsIdle
    /\ fin \in {ProbeStdout(q) :
                  q \in SeqsUpTo({OutLines[k] : k \in 1..Len(OutLines)}, MaxOutLines)}
    /\ fout = <<>>

ParseIndex ==
    /\ fin # <<>> /\ fout = <<>>
    /\ fout' = <<parse_avfoundation_screen_index_text(fin.text)>>
    /\ UNCHANGED <<fin, cfgvars, botvars, execvars, unitvars>>

SpecIndex == IInit /\ [][ParseIndex]_vars

-----------------------------------------------------------------------------
(* replace_avfoundation_device_index on the text of a command: SpecReplace *)

RECURSIVE ToDecimal(_)
\* u32::to_string
ToDecimal(n) ==
    IF n < 10 THEN <<Printable[n + 17]>>
    ELSE ToDecimal(n \div 10) \o <<Printable[(n % 10) + 17]>>

RECURSIVE SkipWhile(_, _, _)
\* while i < bytes.len() && bytes[i] is one of chars { i += 1 }
SkipWhile(s, from, chars) ==
    IF from < Len(s) /\ s[from + 1] \in chars THEN SkipWhile(s, from + 1, chars) ELSE from

Digits == {"0", "1", "2", "3", "4", "5", "6", "7", "8", "9"}

replace_index_whatever_follows(cmd, index) ==
    IF Find(cmd, <<"-", "i", " ">>) = None THEN cmd
    ELSE LET pos == Find(cmd, <<"-", "i", " ">>)[1]
             spaces_end == SkipWhile(cmd, pos + 3, {" "})
             num_start == IF spaces_end < Len(cmd) /\ cmd[spaces_end + 1] \in {"\"", "'"}
                          THEN spaces_end + 1 ELSE spaces_end
             num_end == SkipWhile(cmd, num_start, Digits)
         IN IF num_end > num_start
            THEN Slice(cmd, 0, num_start) \o ToDecimal(index) \o SliceFrom(cmd, num_end)
            ELSE cmd

replace_avfoundation_device_index_text(cmd, index) ==
    IF Find(cmd, <<"-", "i", " ">>) = None THEN cmd
    ELSE LET pos == Find(cmd, <<"-", "i", " ">>)[1]
             spaces_end == SkipWhile(cmd, pos + 3, {" "})
             num_start == IF spaces_end < Len(cmd) /\ cmd[spaces_end + 1] \in {"\"", "'"}
                          THEN spaces_end + 1 ELSE spaces_end
             num_end == SkipWhile(cmd, num_start, Digits)
         IN IF num_end > num_start /\ num_end < Len(cmd) /\ cmd[num_end + 1] = ":"
               /\ num_end + 1 < Len(cmd) /\ cmd[num_end + 2] = "0"
            THEN Slice(cmd, 0, num_start) \o ToDecimal(index) \o SliceFrom(cmd, num_end)
            ELSE cmd

\* A record command in its parts: what stands before the flag, the flag, the
\* spaces and the quote after it, the digits, what follows them, and the rest;
\* `again` tells a rest that holds a second flag, with the digits 5 before ":0"
RecordParts ==
    [pre : {<<"f", "f", "m", "p", "e", "g", " ", "-", "f", " ", "a", "v", "f", "o", "u", "n", "d", "a", "t", "i", "o", "n", " ">>},
     flag : {<<"-", "i", " ">>, <<"-", "t", " ">>},
     gap : {<<>>, <<" ">>},
     quote : {<<>>, <<"\"">>, <<"'">>},
     digits : {<<>>, <<"1">>, <<"1", "2">>},
     tail : {<<":", "0">>, <<":", "1">>, <<>>},
     again : BOOLEAN,
     post : {<<>>, <<"\"", " ", "o", ".", "m", "p", "4">>}]

SecondFlag(digits) == <<" ", "-", "i", " ">> \o digits \o <<":", "0">>

RecordText(p) ==
    p.pre \o p.flag \o p.gap \o p.quote \o p.digits \o p.tail \o p.post
    \o (IF p.again THEN SecondFlag(<<"5">>) ELSE <<>>)

\* The indexes a probe resolves to, as numbers and as they are written
ScreenIndexes ==
    {[n |-> 0, text |-> <<"0">>], [n |-> 3, text |-> <<"3">>],
     [n |-> 10, text |-> <<"1", "0">>]}

RInit ==
    /\ max_fix_retries = 0 /\ activate_venv = None /\ echo_result = TRUE
    /\ allowed_chat_ids = <<>>
    /\ BotIdle /\ ExecIdle /\ UnitsIdle
    /\ fin \in {[parts |-> p, cmd |-> RecordText(p), i |-> a, j |-> b] :
                  p \in RecordParts, a \in ScreenIndexes, b \in ScreenIndexes}
    /\ fout = <<>>

\* The command rewritten with i, rewritten with j after i, and with j alone
ReplaceIndex ==
    /\ fin # <<>> /\ fout = <<>>
    /\ fout' =
         <<[with_i |-> replace_avfoundation_device_index_text(fin.cmd, fin.i.n),
            with_i_then_j |->
              replace_avfoundation_device_index_text(
                replace_avfoundation_device_index_text(fin.cmd, fin.i.n), fin.j.n),
            with_j |-> replace_avfoundation_device_index_text(fin.cmd, fin.j.n)]>>
    /\ UNCHANGED <<fin, cfgvars, botvars, execvars, unitvars>>

SpecReplace == RInit /\ [][ReplaceIndex]_vars

-----------------------------------------------------------------------------
(* parse_ppt_generator_args on the text of a command: SpecPpt *)

PptPrefix == <<"p", "p", "t", "-", "g", "e", "n", "e", "r", "a", "t", "o", "r", " ">>

\* The state of the scan: in_quote, escape, segment_start and segments, a
\* segment being <<start, end>> in offsets into rest
ScanStart == [in_quote |-> FALSE, escape |-> FALSE, segment_start |-> 0, segments |-> <<>>]

QuoteStepWithoutEscape(st, k, c) ==
    IF c = "\""
    THEN IF ~st.in_quote
         THEN [st EXCEPT !.in_quote = TRUE, !.segment_start = k + 1]
         ELSE [st EXCEPT !.in_quote = FALSE,
                         !.segments = Append(st.segments, <<st.segment_start, k>>)]
    ELSE st

\* The body of the for loop over rest.char_indices(), for character c at
\* offset k
QuoteStep(st, k, c) ==
    IF st.escape THEN [st EXCEPT !.escape = FALSE]
    ELSE IF c = "\\" /\ st.in_quote THEN [st EXCEPT !.escape = TRUE]
    ELSE IF c = "\""
    THEN IF ~st.in_quote
         THEN [st EXCEPT !.in_quote = TRUE, !.segment_start = k + 1]
         ELSE [st EXCEPT !.in_quote = FALSE,
                         !.segments = Append(st.segments, <<st.segment_start, k>>)]
    ELSE st

RECURSIVE ScanQuotes(_, _, _)
\* The for loop from offset k on
ScanQuotes(rest, k, st) ==
    IF k >= Len(rest) THEN st
    ELSE ScanQuotes(rest, k + 1, QuoteStep(st, k, rest[k + 1]))

EnoughSegmentsOnlyTwo(segments) == Len(segments) = 2

\* The test after the loop: fewer than two segments give None
EnoughSegments(segments) == ~(Len(segments) < 2)

parse_ppt_generator_args_text(command) ==
    LET cmd == Trim(command) IN
    IF ~StartsWith(cmd, PptPrefix) THEN None
    ELSE LET rest == TrimStart(SliceFrom(cmd, Len(PptPrefix)))
             segments == ScanQuotes(rest, 0, ScanStart).segments
         IN IF ~EnoughSegments(segments) THEN None
            ELSE Some([title |-> Slice(rest, segments[1][1], segments[1][2]),
                       content |-> Slice(rest, segments[2][1], segments[2][2])])

\* The condition of the slide-deck branch of process_message on commands[0]
TakesPptBranch(command) ==
    /\ StartsWith(TrimStart(command), PptPrefix)
    /\ parse_ppt_generator_args_text(command) # None

\* What a command starts with: its text and whether, trimmed, it starts with
\* "ppt-generator "
Lead(text, named) == [text |-> text, named |-> named]

Leads ==
    {Lead(PptPrefix, TRUE),
     Lead(<<" ", "\t">> \o PptPrefix \o <<" ">>, TRUE),
     Lead(<<"p", "p", "t", "-", "g", "e", "n", "e", "r", "a", "t", "o", "r", "\t">>, FALSE),
     Lead(<<"x">> \o PptPrefix, FALSE),
     Lead(<<"e", "c", "h", "o", " ">>, FALSE)}

\* The arguments commands are made of: kind "closed" is a double-quoted
\* argument with the text inside it, "open" a quote that is never closed, "bare"
\* a word without quotes
Arg(kind, text, inner) == [kind |-> kind, text |-> text, inner |-> inner]

Args ==
    {Arg("closed", <<"\"", "T", "\"">>, <<"T">>),
     Arg("closed", <<"\"", "C", " ", "D", "\"">>, <<"C", " ", "D">>),
     Arg("closed", <<"\"", "\"">>, <<>>),
     Arg("closed", <<"\"", "a", "\\", "\"", "b", "\"">>, <<"a", "\\", "\"", "b">>),
     Arg("closed", <<"\"", "x", "\\", "\\", "\"">>, <<"x", "\\", "\\">>),
     Arg("bare", <<"w">>, <<>>),
     Arg("open", <<"\"", "U">>, <<>>)}

\* Argument lists of up to MaxArgs arguments; an unclosed quote takes in
\* whatever follows it, so it stands last
ArgLists ==
    {q \in SeqsUpTo(Args, MaxArgs) : \A k \in 1..(Len(q) - 1) : q[k].kind # "open"}

PptCommand(lead, q, trail) ==
    [lead |-> lead, args |-> q,
     text |-> lead.text \o Join([k \in 1..Len(q) |-> q[k].text], <<" ">>) \o trail]

GInit ==
    /\ max_fix_retries = 0 /\ activate_venv = None /\ echo_result = TRUE
    /\ allowed_chat_ids = <<>>
    /\ BotIdle /\ ExecIdle /\ UnitsIdle
    /\ fin \in {PptCommand(l, q, t) : l \in Leads, q \in ArgLists, t \in {<<>>, <<" ">>}}
    /\ fout = <<>>

\* The test of the slide-deck branch and the parse it repeats
ParsePpt ==
    /\ fin # <<>> /\ fout = <<>>
    /\ fout' = <<[bypass |-> TakesPptBranch(fin.text),
                  parsed |-> parse_ppt_generator_args_text(fin.text)]>>
    /\ UNCHANGED <<fin, cfgvars, botvars, execvars, unitvars>>

SpecPpt == GInit /\ [][ParsePpt]_vars

-----------------------------------------------------------------------------
(* The claims *)

\* The result a caller holds for a return of run_command
Terminal(ret) ==
    IF ret.tag = "Ok" THEN ret.result[1]
    ELSE CommandResult(ret.msg.cmd[1], FALSE, None, EmptyStr, ret.msg)

LoopReturned == lcmds # <<>> /\ pc \in {"report", "done"}

\* C1: the list run_commands_with_fix_retry builds is never longer than its
\* Plan, its k-th result is the terminal result of the k-th Action (what the
\* last run made for that Action returned), every result but the last is a
\* success, an Action is run only when every Action before it has a successful
\* result, and at the return no Action beyond the list has been run.
C1_PrefixFailFast ==
    lcmds # <<>> =>
      /\ Len(results) <= Len(lcmds)
      /\ \A k \in 1..Len(results) :
           lret[k] # <<>> /\ results[k] = Terminal(lret[k][1])
      /\ \A k \in 1..(Len(results) - 1) : results[k].success
      /\ \A k \in 1..Len(lcmds) :
           lret[k] # <<>> => \A j \in 1..(k - 1) : j <= Len(results) /\ results[j].success
      /\ LoopReturned => \A k \in (Len(results) + 1)..Len(lcmds) : lret[k] = <<>>

\* C1 witness: a Plan of three returned with two results, the second one the
\* failure left by a repair run
C1_Witness ==
    /\ LoopReturned /\ pc = "done"
    /\ Len(lcmds) = 3 /\ Len(results) = 2 /\ all = <<>>
    /\ results[1].success /\ ~results[2].success
    /\ cur = 2 /\ nrun >= 2

\* C2 (as claimed): once the Plan has been executed, the final result list is
\* shorter than the Plan only if its last result is a failure.
C2_TruncatedAtFailure ==
    (pc \in {"report", "done"} /\ final # <<>>) =>
      (Len(final.results) < Len(commands) => ~Last(final.results).success)

\* The results process_message holds so far, by Plan index
CurResults == all \o results

\* C3 (as claimed): an Action is run only when every Action before it in the
\* Plan has a result and that result is a success.
C3_FailFast ==
    nrun > 0 => \A j \in 1..(cur - 1) : j <= Len(CurResults) /\ CurResults[j].success

\* C4 (as claimed): ask_fix_for_failure is called at most max_fix_retries times
\* for an Action while the message is handled.
C4_AtMostBudget == nfixLoop + nfixReport <= max_fix_retries

\* C4 (amended): at most max_fix_retries calls for an Action in the repair loop,
\* at most one more for the report, so at most max_fix_retries + 1 in all.
C4_AtMostBudgetPlusReport ==
    /\ nfixLoop <= max_fix_retries
    /\ nfixReport <= 1
    /\ nfixLoop + nfixReport <= max_fix_retries + 1

\* C4 witness: an Action that failed on every run, with the budget used up and
\* the report's call made
C4_Witness ==
    /\ pc = "done" /\ max_fix_retries = 2
    /\ nfixLoop = 2 /\ nfixReport = 1 /\ nrun = 3

FaultFates == {"nospawn", "timeout"}

C6_TimedOutChildEnded ==
    \A k \in 1..Len(xchildren) : xchildren[k].timed_out => xchildren[k].state # "running"

\* C7 (as claimed): every child runs the activation of the configured venv
\* followed by the original command, and the command alone when none is
\* configured.
C7_VenvActivated ==
    \A k \in 1..Len(xchildren) : xchildren[k].shell.activate = activate_venv

\* C8 (as claimed): run_command returns a result whatever a child that ended
\* wrote.
C8_AnyOutputGivesResult ==
    (xlast # <<>> /\ xlast[1].fate \notin FaultFates) => xlast[1].ret.tag = "Ok"

\* C9 (as claimed): the handling unit never aborts.
C9_NeverAborts == pc # "aborted"

\* C10: when llm.classify returns an error the unit ends having sent the error
\* message, with no command run, no fix asked and no slides generated.
C10_ClassifyErrIsMessage ==
    intent = "err" =>
      /\ pc = "done"
      /\ sent = <<"analyzing", "llm_error">>
      /\ cur = 0 /\ nrun = 0 /\ nfixLoop = 0 /\ nfixReport = 0 /\ nppt = 0
      /\ final = <<>>

\* C10 witness: a classification that failed
C10_Witness == intent = "err" /\ pc = "done"


\* The run_command calls made for Action cur that were not repair runs: the
\* first run, and the probe's own run when the Plan is run again from the probe
FirstRuns ==
    IF commands # <<>> /\ Dispatch(commands) = "probe" /\ all = <<>> /\ cur = 1 THEN 2 ELSE 1

\* C11: when ask_fix_for_failure returns an error inside the repair loop, the
\* unit is at the report (or past it, never aborted): no fix command is
\* pending or run after that answer (every earlier ask of the Action led to
\* one run, this one to none), the Action's result is appended, it is the
\* failure its last run returned, and it ends the list handed to the report.
C11_FixErrEndsRepair ==
    lastAsk = "err" =>
      /\ pc \in {"report", "done"}
      /\ fix_cmd = <<>> /\ result = <<>>
      /\ nrun = FirstRuns + nfixLoop - 1
      /\ Len(results) = i /\ lret[i] # <<>>
      /\ ~results[i].success /\ results[i] = Terminal(lret[i][1])
      /\ final # <<>> /\ final.results = all \o results

\* C11 witness: the first ask for an Action failed with budget left, and the
\* unit has finished with the failure as its last result
C11_Witness ==
    /\ lastAsk = "err" /\ pc = "done"
    /\ max_fix_retries = 2 /\ nfixLoop = 1 /\ nrun = 1
    /\ ~Last(final.results).success

\* C12: when no command can be extracted from a suggestion, the loop has been
\* left: the unit is at the report or past it, the number of run_command calls
\* of the Action is what it was before the suggestion, the loop has asked
\* no more than the budget and never again, and the Action's result is the
\* failure its last run returned.
C12_NoCommandEndsRepair ==
    lastAsk = "nocmd" =>
      /\ pc \in {"report", "done"}
      /\ nrun = FirstRuns + nfixLoop - 1 /\ nfixLoop <= max_fix_retries
      /\ fix_cmd = <<>> /\ retry_count = 0
      /\ results # <<>> /\ Len(results) = i /\ lret[i] # <<>>
      /\ Last(results) = Terminal(lret[i][1]) /\ ~Last(results).success

\* C12 witness: budget 2, the second Action failed, the first suggestion had
\* no command, and the unit has finished
C12_Witness ==
    /\ lastAsk = "nocmd" /\ pc = "done"
    /\ max_fix_retries = 2 /\ nfixLoop = 1 /\ cur = 2 /\ nrun = 1
    /\ Len(final.results) = 2

\* The last run_command made for the Action last run was a repair run and it
\* returned a success
RepairSucceeded ==
    /\ lastAsk = "cmd" /\ cur > Len(all)
    /\ LET j == cur - Len(all) IN
       /\ j <= Len(lret) /\ lret[j] # <<>> /\ lret[j][1].tag = "Ok"
       /\ lret[j][1].result[1].success

\* C13: once a repair run of an Action has succeeded, until the next Action is
\* run the unit neither asks for a fix nor runs a fix command, exactly one
\* result stands for the Action and it is the result of the successful run,
\* and the unit stands at the first run of the next Action or, after the last
\* Action, at the report.
C13_RepairSuccessMovesOn ==
    RepairSucceeded =>
      LET j == cur - Len(all) IN
      /\ pc \in {"run", "report", "done"}
      /\ fix_cmd = <<>> /\ result = <<>>
      /\ Len(results) = j /\ results[j] = lret[j][1].result[1]
      /\ nrun = FirstRuns + nfixLoop
      /\ IF j < Len(lcmds) THEN pc = "run" /\ i = j + 1
         ELSE pc # "run" /\ final.results = all \o results

\* C13 witness: the first of three Actions was repaired at the second attempt
\* and the unit stands at the run of the second Action
C13_Witness ==
    /\ RepairSucceeded /\ pc = "run" /\ i = 2 /\ inflight # {}
    /\ Len(lcmds) = 3 /\ nfixLoop = 2 /\ nrun = 3 /\ Len(results) = 1

\* C15: whatever call of the unit is in flight is the one call the unit is
\* waiting at: there is at most one, a run_command and an ask_fix_for_failure
\* are never in flight together, and it belongs to the Action being processed.
C15_OneCallInFlight ==
    /\ Cardinality(inflight) <= 1
    /\ \A c \in inflight :
         /\ c = ThisCall
         /\ pc \in {"probe", "run", "fixrun"} <=> c.fn = "run_command"
         /\ pc \in {"askfix", "report"} <=> c.fn = "ask_fix_for_failure"
         /\ pc \in {"run", "askfix", "fixrun"} => c.action = PlanIndex

\* C15 witness: a repair run of the second Action is in flight after the
\* first Action was repaired
C15_Witness ==
    /\ pc = "fixrun" /\ inflight = {Call("run_command", 2, 1)}
    /\ Len(results) = 1 /\ nfixLoop = 1 /\ all = <<>>


\* The device-index branch was taken and the probe has returned
ProbeReturned == commands # <<>> /\ Dispatch(commands) = "probe" /\ lcmds # <<>>

\* C21: after the probe, the command of every Action from the third on is the
\* Plan's, so is the second Action's when the probe's stdout gave no index (or
\* the probe returned an error), and the first run made for such an Action ran
\* that very command.
C21_NoIndexLeavesPlan ==
    ProbeReturned =>
      LET off == Len(all)
          kept(n) == n >= 3 \/ all = <<>> \/ all[1].stdout.screen < 0
      IN /\ Len(lcmds) = Len(commands) - off
         /\ \A k \in 1..Len(lcmds) : kept(k + off) => lcmds[k] = commands[k + off]
         /\ (cur > off /\ nrun = FirstRuns /\ lret[cur - off] # <<>>
               /\ lret[cur - off][1].tag # "Panic" /\ kept(cur))
              => Terminal(lret[cur - off][1]).command = commands[cur].command

\* C21 witness: the probe succeeded without an index in its stdout, the
\* recording ran as the Plan gave it with the device left at 1, and the third
\* Action, a recording too, has had its first run
C21_Witness ==
    /\ ProbeReturned /\ Len(commands) = 3
    /\ all # <<>> /\ all[1].success /\ all[1].stdout.screen < 0
    /\ results # <<>> /\ results[1].command = commands[2].command
    /\ results[1].command.dev = 1
    /\ commands[3].command.kind = "rec"
    /\ cur = 3 /\ nrun = 1 /\ lret[2] # <<>>

\* The double-quoted arguments of the command given to the parse
ClosedArgs == SelectSeq(fin.args, LAMBDA a : a.kind = "closed")

\* C22: a command that is "ppt-generator " and two double-quoted arguments
\* parses to the texts inside the two pairs of quotes, a backslash and the
\* character after it belonging to the text, and takes the slide-deck branch;
\* a command with one double-quoted argument, or one that does not start with
\* "ppt-generator ", parses to None and does not take the branch.
C22_TwoQuotedArguments ==
    fout # <<>> =>
      /\ (fin.lead.named /\ Len(fin.args) = 2 /\ Len(ClosedArgs) = 2)
           => /\ fout[1].parsed = Some([title |-> fin.args[1].inner,
                                        content |-> fin.args[2].inner])
              /\ fout[1].bypass
      /\ (~fin.lead.named \/ Len(ClosedArgs) = 1)
           => fout[1].parsed = None /\ ~fout[1].bypass

\* C22 witness: ppt-generator "a\"b" "C D" gave the title a\"b and the
\* content C D
C22_Witness ==
    /\ fout # <<>>
    /\ fin.text = PptPrefix \o <<"\"", "a", "\\", "\"", "b", "\"", " ",
                                 "\"", "C", " ", "D", "\"">>
    /\ fout[1].parsed = Some([title |-> <<"a", "\\", "\"", "b">>,
                              content |-> <<"C", " ", "D">>])
    /\ fout[1].bypass

\* C23 as stated: a command is recognised only when it has exactly two
\* double-quoted arguments and no unterminated quote.
C23_ExactlyTwoArguments ==
    (fout # <<>> /\ fout[1].parsed # None) =>
      /\ Len(ClosedArgs) = 2
      /\ \A k \in 1..Len(fin.args) : fin.args[k].kind # "open"

\* C23 amended: a command is recognised exactly when it starts with
\* "ppt-generator " and has at least two double-quoted arguments; title and
\* content are the first two, whatever follows them or stands between them.
C23_AtLeastTwoArguments ==
    fout # <<>> =>
      /\ fout[1].parsed # None <=> (fin.lead.named /\ Len(ClosedArgs) >= 2)
      /\ fout[1].bypass <=> fout[1].parsed # None
      /\ fout[1].parsed # None
           => fout[1].parsed[1] = [title |-> ClosedArgs[1].inner,
                                   content |-> ClosedArgs[2].inner]

\* C23 witness: three double-quoted arguments were recognised, the third one
\* left out
C23_Witness ==
    /\ fout # <<>> /\ fin.lead.named
    /\ Len(fin.args) = 3 /\ Len(ClosedArgs) = 3
    /\ fout[1].parsed = Some([title |-> fin.args[1].inner, content |-> fin.args[2].inner])
    /\ fin.args[3].inner \notin {fin.args[1].inner, fin.args[2].inner}


\* The Plan's first Action is a command the slide-deck branch recognises
BypassTaken == commands # <<>> /\ commands[1].command.kind = "ppt"

\* C24: for a Plan whose first Action the slide-deck branch recognises, no
\* run_command is ever called or in flight, the repair loop is never entered
\* (no fix asked by it, no fix command extracted or pending, no budget used),
\* and generate_ppt_html is called once, whether it succeeds or fails.
C24_BypassRunsNothing ==
    BypassTaken =>
      /\ pc \in {"ppt", "report", "done"}
      /\ nrun = 0 /\ lret = <<>> /\ lcmds = <<>> /\ results = <<>>
      /\ nfixLoop = 0 /\ retry_count = 0 /\ fix_cmd = <<>> /\ result = <<>>
      /\ lastAsk = "none"
      /\ \A c \in inflight : c.fn # "run_command"
      /\ nppt = (IF pc = "ppt" THEN 0 ELSE 1)

\* C24 witness: with a budget of 2 the generation failed and the unit has
\* finished, the report's suggestion asked, nothing run
C24_Witness ==
    /\ BypassTaken /\ pc = "done" /\ max_fix_retries = 2
    /\ ~final.results[1].success /\ nfixReport = 1 /\ nrun = 0 /\ nppt = 1

\* What the unit has sent holds the path of the slides
SlidesSent == \E k \in 1..Len(sent) : sent[k] = SlidesPath

\* C25: once the slide-deck branch has ended, the unit holds one result: after
\* a generation and a write that both succeeded it is a success with exit code
\* 0 whose command is the label made from the title and whose stdout names the
\* saved file, and the path of the file is the one extra document, sent when
\* the unit is done; after a failed generation or a failed write it is a
\* failure with no exit code whose stderr is that error, and no document is
\* kept or sent.
C25_SyntheticOutcome ==
    ppt_how # "none" =>
      /\ Len(final.results) = 1
      /\ LET r == final.results[1] IN
         IF ppt_how = "saved"
         THEN /\ r.success /\ r.exit_code = Some(0)
              /\ r.command.kind = "label" /\ r.command.n = commands[1].command.n
              /\ r.stdout.kind = "saved" /\ r.stderr = EmptyStr
              /\ final.extra = <<SlidesPath>>
              /\ pc = "done" => Last(sent) = SlidesPath
         ELSE /\ ~r.success /\ r.exit_code = None
              /\ r.stderr.kind = ppt_how /\ r.stdout = EmptyStr
              /\ final.extra = <<>>
              /\ ~SlidesSent

\* C25 witness: the markup was generated, the write failed, and the unit has
\* finished with its report and without a document
C25_Witness ==
    /\ ppt_how = "write" /\ pc = "done" /\ echo_result
    /\ ~final.results[1].success /\ final.results[1].stderr.kind = "write"
    /\ Last(sent) \in {"report_suggestion", "report_no_suggestion"}

\* Unit u's message comes from a chat the configured list leaves out
Unlisted(u) ==
    allowed_chat_ids # <<>>
    /\ \A k \in 1..Len(allowed_chat_ids) : allowed_chat_ids[k] # units[u].chat

\* C26: a message from a chat that a non-empty allowed_chat_ids leaves out is
\* dropped by handle_message: its unit never stands in process_message, holds
\* no result and delivers nothing; with an empty list, every text message
\* that the bot did not send itself gets its process_message, whatever its
\* chat.
C26_OnlyAllowedChats ==
    \A u \in Units :
      /\ Unlisted(u) =>
           /\ units[u].pc \in {"arrived", "ignored"}
           /\ units[u].results = <<>> /\ units[u].extra = <<>> /\ units[u].docs = <<>>
      /\ (allowed_chat_ids = <<>> /\ units[u].kind = "text")
           => units[u].pc # "ignored"

\* C26 witness: with the list [1], the message from chat 2 was dropped after
\* its task id was drawn, and the message from chat 1 was handled to its end
C26_Witness ==
    /\ allowed_chat_ids = <<1>>
    /\ units[1].chat = 2 /\ units[1].kind = "text"
    /\ units[1].pc = "ignored" /\ units[1].tid > 0
    /\ units[2].chat = 1 /\ units[2].pc = "done" /\ units[2].results # <<>>

\* The unit has finished and the last result it reported is a failure
EndedInFailure == pc = "done" /\ final # <<>> /\ ~Last(final.results).success

Sent(what) == \E k \in 1..Len(sent) : sent[k] = what

\* With a budget of 0 the repair loop is never entered: no fix is asked by the
\* loop, no fix command is pending or run, and every result of the loop is what
\* the first run of its Action returned
NothingRetried ==
    /\ pc \notin {"askfix", "fixrun"}
    /\ nfixLoop = 0 /\ lastAsk = "none" /\ fix_cmd = <<>> /\ retry_count = 0
    /\ nrun <= FirstRuns
    /\ \A k \in 1..Len(results) : lret[k] # <<>> /\ results[k] = Terminal(lret[k][1])
    /\ \A c \in inflight : c.attempt <= 0

C28_EveryFailureRepaired ==
    (max_fix_retries > 0 /\ cur > Len(all) /\ Len(results) >= cur - Len(all))
      => (~results[cur - Len(all)].success => nfixLoop >= 1)

\* The last run_command made for the Action last run was the run of a fix
\* command and it returned Err: a timeout or a spawn failure
FixRunFaulted ==
    /\ cur > Len(all) /\ cur - Len(all) <= Len(lret)
    /\ lret[cur - Len(all)] # <<>> /\ lret[cur - Len(all)][1].tag = "Err"
    /\ nrun > FirstRuns

\* C29: after a fix command's run ended in a timeout or a spawn failure, the
\* Action's current result is the failure built for it (the fix command, no
\* exit code, empty stdout, the fault's text in stderr), the run is counted in
\* retry_count, and the loop goes on to the next ask while retry_count is
\* below the budget: the result is only appended with the budget used up, or
\* after a later ask that gave no command.
C29_FixRunFaultCounts ==
    FixRunFaulted =>
      LET ret == lret[cur - Len(all)][1]
          faulted == [command |-> ret.msg.cmd[1], success |-> FALSE, exit_code |-> None,
                      stdout |-> EmptyStr, stderr |-> ret.msg]
      IN /\ ret.msg.kind \in {"timeout", "spawn"}
         /\ IF pc \in {"askfix", "fixrun"}
            THEN /\ result = Some(faulted)
                 /\ retry_count = nrun - FirstRuns /\ retry_count < max_fix_retries
            ELSE /\ pc \in {"report", "done"}
                 /\ Len(results) = cur - Len(all) /\ Last(results) = faulted
                 /\ lastAsk = "cmd" => nrun - FirstRuns = max_fix_retries

\* C29 witness: with a budget of 2 the first fix command, another command than
\* the failed one, timed out, and the unit stands at its second ask with the
\* run counted
C29_Witness ==
    /\ FixRunFaulted /\ pc = "askfix" /\ max_fix_retries = 2
    /\ retry_count = 1 /\ nfixLoop = 1
    /\ result[1].command # lcmds[i].command /\ result[1].stderr.kind = "timeout"

\* The return of the latest run_command made for the Action last run
LatestRun == lret[cur - Len(all)][1]

\* C30: an ask_fix_for_failure of the repair loop that is in flight is the
\* k-th of its Action when k - 1 fix commands have been run for the Action, and
\* the command, the exit code and the stderr it passes, and the command its
\* skill hint is built from, are those of the result of the latest run made
\* for the Action: the first run for k = 1, the (k-1)-th fix run for k > 1.
C30_AskPassesLatestRun ==
    \A c \in inflight :
      (c.fn = "ask_fix_for_failure" /\ pc = "askfix") =>
        /\ c.action = cur /\ c.attempt + 1 <= max_fix_retries
        /\ c.attempt = nrun - FirstRuns
        /\ LatestRun.tag # "Panic"
        /\ c.args # <<>>
        /\ c.args[1].command = Terminal(LatestRun).command
        /\ c.args[1].exit_code = Terminal(LatestRun).exit_code
        /\ c.args[1].stderr = Terminal(LatestRun).stderr
        /\ c.args[1].fix_context.hints_for = Terminal(LatestRun).command

\* C30 witness: the second ask for an Action is in flight and passes the fix
\* command of the first repair, which had timed out, and not the Action's own
\* command
C30_Witness ==
    /\ pc = "askfix" /\ inflight # {} /\ retry_count = 1 /\ nrun = 2
    /\ \A c \in inflight :
         /\ c.args # <<>> /\ c.args[1].command # lcmds[i].command
         /\ c.args[1].stderr.kind = "timeout" /\ c.args[1].exit_code = None

\* A step that runs a command: the Action it runs for is the one of the run
\* before or a later one of the Plan, never an earlier one, and the count of
\* runs starts again at one for a later Action
RunsInPlanOrder ==
    nrun' # nrun =>
      /\ cur' >= cur
      /\ cur' <= Len(commands)
      /\ cur' > cur => nrun' = 1
      /\ cur' = cur => nrun' = nrun + 1

\* C31: run_commands_with_fix_retry terminates when every awaited call
\* returns: run_command is called for one Action at most 1 + max_fix_retries
\* times by the loop (FirstRuns counts the probe's own run before the loop),
\* the Actions are run in the order of the Plan and none is gone back to, so
\* at most n * (1 + max_fix_retries) calls in all, and once the loop has its
\* commands the result list is eventually returned (or a call did not return
\* and the unit is aborted), whatever ask_fix_for_failure answers.
C31_LoopTerminates ==
    /\ [](nrun <= FirstRuns + max_fix_retries)
    /\ [][RunsInPlanOrder]_vars
    /\ (lcmds # <<>>) ~> (LoopReturned \/ pc = "aborted")

\* The budget is spent on an Action whose last suggestion was the command
\* that had just failed, and the list is returned all the same
C31_Witness ==
    /\ LoopReturned
    /\ max_fix_retries = MaxBudget
    /\ nrun = FirstRuns + max_fix_retries
    /\ ~Last(results).success
    /\ Last(results).command = lcmds[Len(results)].command

\* C32: while one message is handled the original command of an Action is
\* run at most once: the first run the repair loop makes of a command of its
\* list is never the run of the original command of the Action that the run
\* before was made for.  The code runs the probe's command a second time
\* when the probe's own run returned Err.
C32_OriginalRunOnce ==
    [][(pc = "run" /\ lret' # lret) =>
         ~(cur = PlanIndex /\ lcmds[i].command = commands[cur].command)]_vars

\* The unit took the device-index branch of process_message
ProbePath == commands # <<>> /\ Dispatch(commands) = "probe"

\* C33: the device-index branch is taken only for a Plan of two Actions or
\* more whose first is the device listing, whose second is a recording and
\* whose first is no slide-deck command; on it the probe's command is run
\* once and never repaired, the probe's result is the first of the list the
\* report gets, and that list has result k at the place of Action k (the
\* results after the first are those the repair loop gave for Actions
\* 2..n).  The code runs the whole Plan through the repair loop, the probe
\* included, when the probe's own run returned Err.
C33_ProbeOnceAndFirst ==
    /\ pc = "probe" =>
          /\ Len(commands) >= 2
          /\ is_list_avfoundation_devices(commands[1].command)
          /\ is_avfoundation_record(commands[2].command)
          /\ parse_ppt_generator_args(commands[1].command) = None
    /\ (ProbePath /\ cur = 1) => nrun <= 1 /\ nfixLoop = 0
    /\ (ProbePath /\ pc \in {"report", "done"}) =>
          /\ Len(all) = 1
          /\ all[1].command = commands[1].command
          /\ final.results = all \o results
          /\ Len(lcmds) = Len(commands) - 1
          /\ Len(final.results) <= Len(commands)

\* The Actions the repair loop holds are those of the Plan, in order: the
\* descriptions are the Plan's, and the one command that may differ is that
\* of Action 2 when the probe went before the loop
LoopListIsThePlan ==
    lcmds # <<>> =>
      LET off == Len(commands) - Len(lcmds) IN
      /\ off \in {0, 1}
      /\ \A k \in 1..Len(lcmds) :
            /\ lcmds[k].description = commands[k + off].description
            /\ lcmds[k].command # commands[k + off].command =>
                  ProbePath /\ off = 1 /\ k = 1

\* Entry k of the report describes Action k of the Plan and shows the
\* command of result k
ReportDescribesThePlan ==
    report # <<>> =>
      /\ Len(report) = Len(final.results)
      /\ Len(report) <= Len(commands)
      /\ \A k \in 1..Len(report) :
            /\ report[k].desc = commands[k].description
            /\ report[k].command = final.results[k].command

\* C34: executing a Plan never changes its Actions: once classified the Plan
\* stays as it is; the list the repair loop works on differs from it in the
\* command of Action 2 on the device-index branch at most, and is fixed from
\* the moment the loop has it, so before the first run of Action 2; a fix
\* command shows in the result alone, and the report describes result k by
\* the description Action k has in the Plan.
C34_PlanUnchanged ==
    /\ [](LoopListIsThePlan /\ ReportDescribesThePlan)
    /\ [][commands # <<>> => commands' = commands]_vars
    /\ [][lcmds # <<>> => lcmds' = lcmds]_vars

\* Action 2 was rewritten from the probe's output, then repaired, and the
\* report shows the fix command under the description of Action 2
C34_Witness ==
    /\ ProbePath /\ pc = "done" /\ Len(report) = 2
    /\ lcmds[1].command # commands[2].command
    /\ report[2].command \notin {lcmds[1].command, commands[2].command}
    /\ report[2].desc = commands[2].description
    /\ report[1].desc = commands[1].description

\* The units whose message has got its task id
Drawn == {u \in Units : units[u].tid # 0}

\* C35: the ids drawn from TASK_COUNTER are unique and grow in the order of
\* the draws, however the handle_message calls of the messages interleave:
\* no two messages hold the same id, every id held is below the counter, and
\* a message that draws its id gets one above every id drawn before it.
C35_TaskIdsUniqueMonotonic ==
    /\ [](\A u, v \in Drawn : u # v => units[u].tid # units[v].tid)
    /\ [](\A u \in Drawn : units[u].tid < task_counter)
    /\ [][\A u \in Units : units'[u].tid # units[u].tid =>
            \A v \in Drawn : units'[u].tid > units[v].tid]_vars

\* The ids of the processed messages are not contiguous: a photo message was
\* dropped after it drew id 1, and the one message processed has id 2
C35_Witness ==
    /\ \E u \in Units : units[u].kind = "photo" /\ units[u].pc = "ignored" /\ units[u].tid = 1
    /\ \E u \in Units : units[u].kind = "text" /\ units[u].pc = "done" /\ units[u].tid = 2
    /\ \A u \in Units : units[u].pc # "ignored" => units[u].tid # 1

\* The classification gave nothing to run: a Question, or a Command with an
\* empty list of Actions
NothingToRun == intent = "question" \/ (intent = "command" /\ commands = <<>>)

C14_UnitsDeliverOwnData ==
    \A u \in Units :
      /\ \A k \in 1..Len(units[u].results) :
           units[u].results[k].command.n = UnitCommand(u).n
      /\ \A k \in 1..Len(units[u].docs) : units[u].docs[k] = Markup(u)


\* The positions of the lines of some kinds in a suggestion
LinesOfKind(q, kinds) == {k \in 1..Len(q) : q[k].kind \in kinds}

\* The lines of the first fenced block of a suggestion: the tag after the
\* opening fence, if any, then the lines up to the next fence or the end
BlockLines(q) ==
    IF LinesOfKind(q, {"fence"}) = {} THEN <<>>
    ELSE LET f == MinOf(LinesOfKind(q, {"fence"}))
             later == {k \in LinesOfKind(q, {"fence"}) : k > f}
             g == IF later = {} THEN Len(q) + 1 ELSE MinOf(later)
             tag == IF q[f].inner = <<>> THEN <<>>
                    ELSE <<SuggestionLine("plain", q[f].inner, <<>>, FALSE)>>
         IN tag \o SubSeq(q, f + 1, g - 1)

ValidLines(b) == SelectSeq(b, LAMBDA l : l.kind # "comment")

\* The first valid line of the block, however long the block
BlockFirstValid(q) ==
    IF ValidLines(BlockLines(q)) = <<>> THEN None
    ELSE Some(ValidLines(BlockLines(q))[1].text)

\* The first line of the block when it is valid, else, in a block of at most
\* two lines, the first valid line
BlockFirstOrShortValid(q) ==
    LET b == BlockLines(q) IN
    IF b # <<>> /\ b[1].kind # "comment" THEN Some(b[1].text)
    ELSE IF Len(b) <= 2 THEN BlockFirstValid(q)
    ELSE None

\* The first backticked span that holds a space or starts with "/" or "echo"
AnyGoodSpan(q) ==
    LET good == {k \in LinesOfKind(q, {"span"}) : q[k].runs} IN
    IF good = {} THEN None ELSE Some(q[MinOf(good)].inner)

\* The text between the first two backticks of the suggestion, when it holds
\* a space or starts with "/" or "echo": nothing when a fence comes first
FirstSpanIfGood(q) ==
    LET ticks == LinesOfKind(q, {"span", "fence"}) IN
    IF ticks # {} /\ q[MinOf(ticks)].kind = "span" /\ q[MinOf(ticks)].runs
    THEN Some(q[MinOf(ticks)].inner)
    ELSE None

\* The first line with a known prefix
FirstKnownLine(q) ==
    IF LinesOfKind(q, {"known"}) = {} THEN None
    ELSE Some(q[MinOf(LinesOfKind(q, {"known"}))].text)

FirstSome(a, b, c) == IF a # None THEN a ELSE IF b # None THEN b ELSE c

\* C16 as stated: the first valid line of the fenced block wins over any
\* backticked span, a span that holds a space or starts with "/" or "echo"
\* wins over a known-prefix line, and None is returned when there is none.
C16_FirstValidLineWins ==
    fout # <<>> =>
      fout[1] = FirstSome(BlockFirstValid(fin.lines), AnyGoodSpan(fin.lines),
                          FirstKnownLine(fin.lines))

\* C16 amended: the fenced block gives its first line when that line is valid
\* and, when the block has at most two lines, its first valid line; otherwise
\* the text between the first two backticks of the suggestion is taken when it
\* holds a space or starts with "/" or "echo"; otherwise the first line with a
\* known prefix; a later rule is applied only when the earlier ones give
\* nothing, and None is returned when none gives anything.
C16_RulePriority ==
    fout # <<>> =>
      fout[1] = FirstSome(BlockFirstOrShortValid(fin.lines), FirstSpanIfGood(fin.lines),
                          FirstKnownLine(fin.lines))

\* C16 witness: a suggestion with a good span, then a fenced block, then a
\* known-prefix line, from which the block's first line was extracted
C16_Witness ==
    /\ fout # <<>>
    /\ [k \in 1..Len(fin.lines) |-> fin.lines[k].kind] = <<"span", "fence", "plain", "known">>
    /\ fin.lines[1].runs
    /\ fout[1] = Some(fin.lines[3].text)


\* The paths of the words that start with "/" or "./" once their quotes are
\* gone, end with an extension of the category, and have at most `quotes`
\* quote characters on either side
PathsOf(q, category, quotes) ==
    LET hits == SelectSeq(q, LAMBDA w : /\ w.rooted
                                       /\ w[category]
                                       /\ w.lead <= quotes /\ w.trail <= quotes)
    IN [k \in 1..Len(hits) |-> hits[k].path]

\* C17 as stated: a word is reported in a category exactly when, with one
\* leading and one trailing quote character trimmed, it starts with "/" or
\* "./" and its lowercase form ends with an extension of the category.
C17_SingleQuoteTrimmed ==
    fout # <<>> =>
      /\ fout[1].images = PathsOf(fin.words, "image", 1)
      /\ fout[1].videos = PathsOf(fin.words, "video", 1)

\* C17 amended: a word is reported in a category exactly when, with every
\* leading and every trailing quote character trimmed, it starts with "/" or
\* "./" and its lowercase form ends with an extension of the category; what is
\* reported is the trimmed word in its own casing, in the order of the text,
\* and the two categories are checked independently.
C17_AllQuotesTrimmed ==
    fout # <<>> =>
      /\ fout[1].images = PathsOf(fin.words, "image", Len(fin.text))
      /\ fout[1].videos = PathsOf(fin.words, "video", Len(fin.text))

\* C17 witness: the example text gave its one image and its one video
C17_Witness ==
    /\ fout # <<>> /\ fin.words = ExampleWords
    /\ fout[1].images = <<ExampleWords[3].text>> /\ ExampleWords[3].image
    /\ fout[1].videos = <<ExampleWords[5].text>> /\ ExampleWords[5].video


\* The words of every text of every result
WordsOfResults(rs) ==
    UNION {{r.stdout.words[k] : k \in 1..Len(r.stdout.words)}
           \cup {r.stderr.words[k] : k \in 1..Len(r.stderr.words)}
           \cup {r.command.words[k] : k \in 1..Len(r.command.words)} :
           r \in {rs[j] : j \in 1..Len(rs)}}

StrictlyIncreasing(l) == \A k \in 1..(Len(l) - 1) : StrLess(l[k], l[k + 1])

Elements(l) == {l[k] : k \in 1..Len(l)}

\* C18: each list of a scan is strictly increasing in the order of strings, it
\* holds the paths, in their own casing, of exactly the words of stdout,
\* stderr and command of the results that qualify for its category, and a
\* second scan of the same results returns the same lists.
C18_SortedExactStable ==
    \A n \in 1..Len(fout) :
      /\ StrictlyIncreasing(fout[n].images) /\ StrictlyIncreasing(fout[n].videos)
      /\ Elements(fout[n].images) = {w.path : w \in {v \in WordsOfResults(fin.results) :
                                                       v.rooted /\ v.image}}
      /\ Elements(fout[n].videos) = {w.path : w \in {v \in WordsOfResults(fin.results) :
                                                       v.rooted /\ v.video}}
      /\ fout[n] = fout[1]

\* C18 witness: two results that name the same image several times and in two
\* casings were scanned twice, and the list holds each path once
C18_Witness ==
    /\ Len(fout) = 2 /\ Len(fin.results) = 2
    /\ fin.results[1].stdout = UnorderedText /\ fin.results[2].stderr = RepeatingText
    /\ Len(fout[2].images) = 4
    /\ WordList[1].path \in Elements(fout[2].images)
    /\ WordList[9].path \in Elements(fout[2].images)


\* The value of the last piece of kind "digits"
NearestDigits(pieces) ==
    LET at == {k \in 1..Len(pieces) : pieces[k].kind = "digits"} IN
    IF at = {} THEN None ELSE Some(pieces[MaxOf(at)].value)

\* The bracket groups that stand right before the marker with no text between
ConsecutiveGroups(pieces) ==
    LET texts == {k \in 1..Len(pieces) : pieces[k].kind = "text"} IN
    IF texts = {} THEN pieces ELSE SubSeq(pieces, MaxOf(texts) + 1, Len(pieces))

MarkerLines(q) == SelectSeq(q, LAMBDA l : l.marker)

\* C19 as stated: the first line with the marker is used, and of the
\* consecutive bracket groups right before the marker the nearest all-digit
\* one is the index; no index when no line has the marker.
C19_FirstMarkerLine ==
    fout # <<>> =>
      fout[1] = IF MarkerLines(fin.lines) = <<>> THEN None
                ELSE NearestDigits(ConsecutiveGroups(MarkerLines(fin.lines)[1].pieces))

\* C19 amended: the line used is the first line with the marker that has,
\* anywhere before the marker, a bracket group of digits that fit a u32; on
\* that line the index is the nearest such group before the marker, whatever
\* stands between it and the marker; no index when no line has both.
C19_FirstLineWithIndex ==
    fout # <<>> =>
      LET hits == SelectSeq(MarkerLines(fin.lines), LAMBDA l : NearestDigits(l.pieces) # None)
      IN fout[1] = IF hits = <<>> THEN None ELSE NearestDigits(hits[1].pieces)

\* C19 witness: stdout with a camera line and the two example lines, resolved
\* to the index of the first line with the marker
C19_Witness ==
    /\ fout = <<Some(1)>>
    /\ fin.lines = <<OutLines[3], OutLines[2], OutLines[1]>>


\* The text of a command whose parts are p once index x is written into it:
\* the digits after the first "-i " change when they are there and ":0"
\* follows them, and nothing else does
Rewritten(p, x) ==
    IF p.flag = <<"-", "i", " ">>
    THEN IF p.digits # <<>> /\ p.tail = <<":", "0">>
         THEN p.pre \o p.flag \o p.gap \o p.quote \o x.text \o p.tail \o p.post
              \o (IF p.again THEN SecondFlag(<<"5">>) ELSE <<>>)
         ELSE RecordText(p)
    ELSE p.pre \o p.flag \o p.gap \o p.quote \o p.digits \o p.tail \o p.post
         \o (IF p.again THEN SecondFlag(x.text) ELSE <<>>)

\* C20: the rewrite changes only the digits that stand right before ":0" in
\* the value of the first "-i " of the command and keeps every other
\* character in place, a command whose value is not digits followed by ":0"
\* comes back unchanged, and rewriting with j after i gives what rewriting
\* with j alone gives.
C20_OnlyTheIndexChanges ==
    fout # <<>> =>
      /\ fout[1].with_i = Rewritten(fin.parts, fin.i)
      /\ fout[1].with_j = Rewritten(fin.parts, fin.j)
      /\ fin.parts.flag = <<"-", "i", " ">>
           /\ (fin.parts.digits = <<>> \/ fin.parts.tail # <<":", "0">>)
           => fout[1].with_i = fin.cmd
      /\ fout[1].with_i_then_j = fout[1].with_j

\* C20 witness: -i "12:0" followed by a second flag was rewritten with 10 and
\* then with 3, and only the digits 12 gave way
C20_Witness ==
    /\ fout # <<>> /\ fin.i.n = 10 /\ fin.j.n = 3
    /\ fin.parts.flag = <<"-", "i", " ">> /\ fin.parts.quote = <<"\"">>
    /\ fin.parts.digits = <<"1", "2">> /\ fin.parts.tail = <<":", "0">> /\ fin.parts.again
    /\ fout[1].with_i # fin.cmd /\ Len(fout[1].with_i) = Len(fin.cmd)
    /\ Len(fout[1].with_i_then_j) = Len(fin.cmd) - 1

=============================================================================
